---- MODULE Spec2Model ----
(***************************************************************************)
(* OperationTracker (src/yb/tablet/operations/operation_tracker.cc): the   *)
(* registry of in-flight tablet operations.  Request threads call Add and  *)
(* Release; every access to shared state (the MemTracker, the metrics, the *)
(* pending_operations_ map under lock_) is one step of the calling thread, *)
(* so that all interleavings of concurrent calls are explored.             *)
(***************************************************************************)
EXTENDS Integers, FiniteSets, Sequences, TLC

(* ---- bounds of the model ---- *)
NumThreads == 2
MaxOps == 2
\* The gauges are uint64 in the source (METRIC_DEFINE_gauge_uint64); the
\* model keeps the wrap-around but on GaugeBits bits.
GaugeBits == 4

\* Callers of WaitForAllToFinish; each of them makes one call.
NumDrainers == 1
\* Iterations of WaitForAllToFinish's loop that are followed.
MaxPolls == 2
\* Time that passes outside of SleepFor is followed up to this instant (microseconds).
Horizon == 1000000
\* Tasks given to ScheduleOnReactor in a run.
MaxTasks == 2
\* Iterations of WaitForAllToFinish's loop that are followed when nothing is released.
MaxBackoff == 40

(* ---- program constants ---- *)
kOperationTypes == 5
kBytesPerMb == 1024 * 1024
\* WaitForAllToFinish: complain_ms, the first value of wait_time, its cap.
complain_ms == 1000
kInitialWaitTime == 250
kMaxWaitTime == 1000000
\* MakeMessengerOptions: result.n_reactors = 4.
n_reactors == 4

\* Request threads.  They are interchangeable: a new call is given to the
\* lowest-numbered thread that is not inside a call.
Threads == 1..NumThreads
\* OperationDriver identities, numbered in the order they are submitted.
Drivers == 1..MaxOps

OperationTypes ==
  {"WRITE_TXN", "ALTER_SCHEMA_TXN", "UPDATE_TRANSACTION_TXN", "SNAPSHOT_TXN", "TRUNCATE_TXN"}

\* driver.operation_type(), fixed when the driver is built: the drivers that
\* are submitted are alternately writes and snapshots.
operation_type(d) == IF d % 2 = 1 THEN "WRITE_TXN" ELSE "SNAPSHOT_TXN"

\* Values request()->SpaceUsed() is drawn from.
Footprints == {kBytesPerMb, 2 * kBytesPerMb}

\* Values of --tablet_operation_memory_limit_mb the process may be started with.
FlagValues == {-1, 0, 2}

\* Limit of the parent MemTracker the tablet's tracker is created under.
ParentLimits == {2 * kBytesPerMb}

\* What the rest of the server may hold in the parent tracker.
OtherBytes == {kBytesPerMb}

NULL == [null |-> TRUE]

Drainers == 1..NumDrainers

\* MonoDelta, in microseconds.  Indefinitely is the delta of line 224,
\* FromNanoseconds(numeric_limits<int64_t>::max()): no difference of two
\* MonoTime values is more than it.
FromMicroseconds(n) == [max |-> FALSE, us |-> n]
Indefinitely == [max |-> TRUE, us |-> 0]

\* Timeouts WaitForAllToFinish(timeout) is called with.
Timeouts == {FromMicroseconds(0), FromMicroseconds(300)}

\* Time a thread may spend between two of its steps, or oversleep.
Delays == {1000000}

\* The messenger's reactor threads, the tasks, and the delays they are
\* scheduled with (microseconds): at once, or after 100 ms.
Reactors == 1..n_reactors
Tasks == 1..MaxTasks
TaskDelays == {0, 100000}

VARIABLES
  tablet_operation_memory_limit_mb, \* the gflag
  ndebug,                  \* TRUE once a failed DCHECK was passed over: a release build
  mem_tracker_,            \* NULL or [limit, consumption]
  parent_mem_tracker,      \* [limit, consumption], consumption includes the children's
  other_consumption,       \* bytes of parent_mem_tracker held by other subsystems
  metrics_,                \* TRUE iff metrics_ is non-null
  all_operations_inflight,
  operations_inflight,     \* [OperationTypes -> gauge value]
  operation_memory_pressure_rejections,
  pending_operations_,     \* function: tracked drivers -> State
  pc,                      \* position of each thread
  driver,                  \* the argument of each thread's current call
  driver_mem_footprint,    \* Add's local
  st,                      \* Release's local State
  driver_state,            \* what the caller knows of each driver
  crashed,                 \* a CHECK, DCHECK or LOG(FATAL) aborted the process
  tracking_late,           \* history: StartMemoryTracking ran after the first Add
  instrumented_late,       \* history: metrics_ was first set after the first Add
  instrumented_again,      \* history: StartInstrumentation was called again, operations pending
  round_trip,              \* history: the state before an Add that ran alone, or NULL
  destroyed,               \* ~OperationTracker has run to completion
  now,                     \* MonoTime::Now(), in microseconds
  drain_pc,                \* position of each caller of WaitForAllToFinish
  timeout,                 \* WaitForAllToFinish's argument
  check_ok,                \* the call came through WaitForAllToFinish(): CHECK_OK
  start_time,              \* WaitForAllToFinish's locals, per caller
  operations,
  wait_time,
  num_complaints,
  wake_time,               \* when the caller's SleepFor ends
  drain_status,            \* what the call returned: NULL, or [code, pending]
  polls,                   \* history: GetPendingOperations calls of the current call
  sleeps,                  \* history: SleepFor calls of the current call
  lock_,                   \* who holds lock_: NoHolder, or [kind, id]
  result,                  \* GetPendingOperations' local vector, per caller
  closing_,                \* the messenger has been shut down
  scheduled_tasks,         \* the tasks given to ScheduleOnReactor
  running_task,            \* the task each reactor thread is running, or 0
  last_warning             \* when Add's rejection warning was last logged: NULL, or [ts]

vars == <<tablet_operation_memory_limit_mb, ndebug, mem_tracker_, parent_mem_tracker,
          other_consumption, metrics_, all_operations_inflight, operations_inflight,
          operation_memory_pressure_rejections, pending_operations_, pc, driver,
          driver_mem_footprint, st, driver_state, crashed,
          tracking_late, instrumented_late, instrumented_again, round_trip, destroyed,
          now, drain_pc, timeout, check_ok, start_time, operations, wait_time,
          num_complaints, wake_time, drain_status, polls, sleeps,
          lock_, result, closing_, scheduled_tasks, running_task, last_warning>>

memVars == <<mem_tracker_, parent_mem_tracker, other_consumption>>
gaugeVars == <<all_operations_inflight, operations_inflight>>
metricVars == <<all_operations_inflight, operations_inflight,
                operation_memory_pressure_rejections>>
setupVars == <<tablet_operation_memory_limit_mb, metrics_,
               tracking_late, instrumented_late, instrumented_again>>
drainVars == <<now, drain_pc, timeout, check_ok, start_time, operations, wait_time,
               num_complaints, wake_time, drain_status, polls, sleeps>>
lockVars == <<lock_, result>>
reactorVars == <<closing_, scheduled_tasks, running_task>>
logVars == <<last_warning>>
\* Everything but the locals of WaitForAllToFinish and the clock.
trackerVars == <<tablet_operation_memory_limit_mb, ndebug, mem_tracker_, parent_mem_tracker,
                 other_consumption, metrics_, all_operations_inflight, operations_inflight,
                 operation_memory_pressure_rejections, pending_operations_, pc, driver,
                 driver_mem_footprint, st, driver_state, crashed,
                 tracking_late, instrumented_late, instrumented_again, round_trip,
                 destroyed, lockVars, reactorVars, logVars>>

(* ---- helpers ---- *)

GaugeModulus == 2 ^ GaugeBits

\* AtomicGauge<uint64_t>::Increment / Decrement.
GaugeIncrement(v) == (v + 1) % GaugeModulus
GaugeDecrement(v) == (v - 1) % GaugeModulus

\* State::State() and the assignment of memory_footprint in Add.
State(bytes) == [memory_footprint |-> bytes]

RECURSIVE SumFootprints(_, _)
SumFootprints(map, keys) ==
  IF keys = {} THEN 0
  ELSE LET k == CHOOSE x \in keys : TRUE
       IN map[k].memory_footprint + SumFootprints(map, keys \ {k})

\* Sum of the memory_footprint recorded in pending_operations_.
PendingFootprint == SumFootprints(pending_operations_, DOMAIN pending_operations_)

\* GetNumPendingForTests.
GetNumPendingForTests == Cardinality(DOMAIN pending_operations_)

\* GetPendingOperations: the keys of the map, copied under lock_.
GetPendingOperations == DOMAIN pending_operations_

\* MemTracker: a node admits bytes when it has no limit or stays within it.
\* (the bytes are compared with the limit without the consumption)
HasRoom_Alone(tracker, bytes) == tracker.limit < 0 \/ bytes <= tracker.limit
HasRoom(tracker, bytes) ==
  tracker.limit < 0 \/ tracker.consumption + bytes <= tracker.limit

\* MemTracker::TryConsume on a child of parent: all or nothing.
TryConsumeSucceeds(tracker, parent, bytes) ==
  HasRoom(tracker, bytes) /\ HasRoom(parent, bytes)

\* (the consumption is not recorded)
Consumed_Nothing(tracker, bytes) == tracker
Consumed(tracker, bytes) == [tracker EXCEPT !.consumption = @ + bytes]

\* MemTracker::Release.
Released(tracker, bytes) == [tracker EXCEPT !.consumption = @ - bytes]

\* The gauge a driver is counted in: operations_inflight[driver.operation_type()].
GaugeSlot_Fixed(d) == "WRITE_TXN"
GaugeSlot(d) == operation_type(d)

\* pending_operations_.erase(driver).
Erased_Nothing(map, d) == map
Erased(map, d) == [k \in DOMAIN map \ {d} |-> map[k]]

\* pending_operations_.emplace(driver, st), for a driver that is not a key yet.
Emplaced(map, d, state) ==
  [k \in DOMAIN map \cup {d} |-> IF k = d THEN state ELSE map[k]]

\* operation_memory_pressure_rejections->Increment(), guarded by metrics_.
RejectionCounted_Never(v) == v
RejectionCounted(v) == IF metrics_ THEN v + 1 ELSE v

\* Line 135: mem_tracker_ && !mem_tracker_->TryConsume(driver_mem_footprint).
AddRejects_Never(bytes) == FALSE
\* (admission is closed while a caller waits for the operations to finish)
AddRejects_WhileDraining(bytes) ==
  \/ mem_tracker_ # NULL /\ ~TryConsumeSucceeds(mem_tracker_, parent_mem_tracker, bytes)
  \/ \E w \in DOMAIN drain_pc : drain_pc[w] \in {"poll", "check", "sleep"}
\* (only the tracker's own limit is looked at, not its ancestors')
AddRejects_OwnLimitOnly(bytes) ==
  mem_tracker_ # NULL /\ ~HasRoom(mem_tracker_, bytes)
AddRejects(bytes) ==
  mem_tracker_ # NULL /\ ~TryConsumeSucceeds(mem_tracker_, parent_mem_tracker, bytes)

\* DCHECK_GT(value, 0): aborts in a debug build, is compiled out of a release
\* build.  Which build runs shows at the first DCHECK that is false.
DcheckAborts(value) == value = 0 /\ ~ndebug
DcheckSkipped(value) == value = 0

Quiescent == \A t \in Threads : pc[t] = "idle"

\* The process runs and the tracker has not been destroyed.
Alive == ~crashed /\ ~destroyed

\* Thread t is the one that takes the next call.
TakesCall(t) == pc[t] = "idle" /\ \A u \in Threads : u < t => pc[u] # "idle"

AnyAddStarted == \E d \in Drivers : driver_state[d] # "new"

\* The call returns: the thread is idle again and its locals are gone.
Return(t) ==
  /\ pc' = [pc EXCEPT ![t] = "idle"]
  /\ driver' = [driver EXCEPT ![t] = 0]
  /\ driver_mem_footprint' = [driver_mem_footprint EXCEPT ![t] = 0]

\* What a round trip of driver d is compared against.
Snapshot(d) ==
  [driver |-> d, mem_tracker |-> mem_tracker_, parent |-> parent_mem_tracker,
   pending |-> pending_operations_, all |-> all_operations_inflight,
   by_type |-> operations_inflight]

\* A step on driver d keeps the snapshot of d and drops any other.
KeepRoundTrip(d) ==
  round_trip' = IF round_trip # NULL /\ round_trip.driver = d THEN round_trip ELSE NULL

DropRoundTrip == round_trip' = NULL

\* (the time is up as soon as the timeout is reached)
MoreThan_OrEqual(diff, delta) == ~delta.max /\ diff >= delta.us
\* diff.MoreThan(timeout), diff being an elapsed time in microseconds.
MoreThan(diff, delta) == ~delta.max /\ diff > delta.us

\* (the first argument, whatever the second)
Min_Uncapped(a, b) == a
Min(a, b) == IF a <= b THEN a ELSE b

\* None of the callers has called WaitForAllToFinish.
NoDrainAmong(callers) ==
  /\ now = 0
  /\ drain_pc = [w \in callers |-> "idle"]
  /\ timeout = [w \in callers |-> Indefinitely]
  /\ check_ok = [w \in callers |-> FALSE]
  /\ start_time = [w \in callers |-> 0]
  /\ operations = [w \in callers |-> {}]
  /\ wait_time = [w \in callers |-> 0]
  /\ num_complaints = [w \in callers |-> 0]
  /\ wake_time = [w \in callers |-> 0]
  /\ drain_status = [w \in callers |-> NULL]
  /\ polls = [w \in callers |-> 0]
  /\ sleeps = [w \in callers |-> 0]

NoDrain == NoDrainAmong(Drainers)

\* lock_ is free and nobody is inside GetPendingOperations.
NoHolder == [kind |-> "none", id |-> 0]
Unlocked ==
  /\ lock_ = NoHolder
  /\ result = [w \in Drainers |-> << >>]

\* No messenger is in use.
NoReactor ==
  /\ closing_ = FALSE
  /\ scheduled_tasks = << >>
  /\ running_task = << >>

\* Add has not logged its rejection warning yet.
NoWarning == last_warning = NULL

(* ---- initial state: OperationTracker::OperationTracker() ---- *)

Init ==
  /\ tablet_operation_memory_limit_mb \in FlagValues
  /\ ndebug = FALSE
  /\ mem_tracker_ = NULL
  /\ \E l \in ParentLimits : parent_mem_tracker = [limit |-> l, consumption |-> 0]
  /\ other_consumption = 0
  /\ metrics_ = FALSE
  /\ all_operations_inflight = 0
  /\ operations_inflight = [ty \in OperationTypes |-> 0]
  /\ operation_memory_pressure_rejections = 0
  /\ pending_operations_ = <<>>
  /\ pc = [t \in Threads |-> "idle"]
  /\ driver = [t \in Threads |-> 0]
  /\ driver_mem_footprint = [t \in Threads |-> 0]
  /\ st = [t \in Threads |-> State(0)]
  /\ driver_state = [d \in Drivers |-> "new"]
  /\ crashed = FALSE
  /\ tracking_late = FALSE
  /\ instrumented_late = FALSE
  /\ instrumented_again = FALSE
  /\ round_trip = NULL
  /\ destroyed = FALSE
  /\ NoDrain
  /\ Unlocked
  /\ NoReactor
  /\ NoWarning

(* ---- setup calls ---- *)

\* METRIC_x.Instantiate(entity, initial): the entity's instance of the metric,
\* made with the initial value if the entity holds none yet.
Instantiate(held, initial) == IF metrics_ THEN held ELSE initial

\* (every call makes gauges and a counter of its own, starting at 0)
Instrument_FreshGauges(again) ==
  /\ Alive
  /\ UNCHANGED <<destroyed, drainVars, lockVars, reactorVars, logVars>>
  /\ Quiescent
  /\ metrics_' = TRUE
  /\ DropRoundTrip
  /\ instrumented_late' = (instrumented_late \/ (~metrics_ /\ AnyAddStarted))
  /\ instrumented_again' = again
  /\ all_operations_inflight' = 0
  /\ operations_inflight' = [ty \in OperationTypes |-> 0]
  /\ operation_memory_pressure_rejections' = 0
  /\ UNCHANGED <<tablet_operation_memory_limit_mb, ndebug, tracking_late, memVars,
                 pending_operations_, pc, driver, driver_mem_footprint, st,
                 driver_state, crashed>>

\* OperationTracker::StartInstrumentation.  The gauges and the counter are
\* instantiated in the tablet's metric entity with initial value 0; a later
\* call finds the instances the entity already holds.
Instrument(again) ==
  /\ Alive
  /\ UNCHANGED <<destroyed, drainVars, lockVars, reactorVars, logVars>>
  /\ Quiescent
  /\ metrics_' = TRUE
  /\ DropRoundTrip
  /\ instrumented_late' = (instrumented_late \/ (~metrics_ /\ AnyAddStarted))
  /\ instrumented_again' = again
  /\ all_operations_inflight' = Instantiate(all_operations_inflight, 0)
  /\ operations_inflight' =
       [ty \in OperationTypes |-> Instantiate(operations_inflight[ty], 0)]
  /\ operation_memory_pressure_rejections' =
       Instantiate(operation_memory_pressure_rejections, 0)
  /\ UNCHANGED <<tablet_operation_memory_limit_mb, ndebug, tracking_late, memVars,
                 pending_operations_, pc, driver, driver_mem_footprint, st,
                 driver_state, crashed>>

StartInstrumentation == Instrument(instrumented_again)

\* A call of StartInstrumentation on a tracker that has metrics_ already, with
\* the same metric entity.
StartInstrumentationAgain == metrics_ /\ Instrument(TRUE)

\* (the tracker is created whatever the flag says)
StartMemoryTracking_IgnoresFlag ==
  /\ Alive
  /\ UNCHANGED <<destroyed, drainVars, lockVars, reactorVars, logVars>>
  /\ Quiescent
  /\ DropRoundTrip
  /\ mem_tracker_' = [limit |-> tablet_operation_memory_limit_mb * 1024 * 1024,
                      consumption |-> 0]
  /\ tracking_late' = (tracking_late \/ AnyAddStarted)
  /\ UNCHANGED <<tablet_operation_memory_limit_mb, ndebug, instrumented_late,
                 instrumented_again, metrics_,
                 parent_mem_tracker, other_consumption,
                 metricVars, pending_operations_, pc, driver, driver_mem_footprint, st,
                 driver_state, crashed>>

\* OperationTracker::StartMemoryTracking: a new child tracker of the parent.
StartMemoryTracking ==
  /\ Alive
  /\ UNCHANGED <<destroyed, drainVars, lockVars, reactorVars, logVars>>
  /\ Quiescent
  /\ DropRoundTrip
  /\ IF tablet_operation_memory_limit_mb # -1
     THEN /\ mem_tracker_' = [limit |-> tablet_operation_memory_limit_mb * 1024 * 1024,
                              consumption |-> 0]
          /\ tracking_late' = (tracking_late \/ AnyAddStarted)
     ELSE UNCHANGED <<mem_tracker_, tracking_late>>
  /\ UNCHANGED <<tablet_operation_memory_limit_mb, ndebug, instrumented_late,
                 instrumented_again, metrics_,
                 parent_mem_tracker, other_consumption,
                 metricVars, pending_operations_, pc, driver, driver_mem_footprint, st,
                 driver_state, crashed>>

(* ---- the rest of the server, sharing the parent tracker ---- *)

OtherConsume(bytes) ==
  /\ ~crashed
  /\ UNCHANGED <<destroyed, drainVars, lockVars, reactorVars, logVars>>
  /\ other_consumption = 0
  /\ HasRoom(parent_mem_tracker, bytes)
  /\ parent_mem_tracker' = Consumed(parent_mem_tracker, bytes)
  /\ other_consumption' = bytes
  /\ DropRoundTrip
  /\ UNCHANGED <<setupVars, ndebug, mem_tracker_, metricVars, pending_operations_, pc, driver,
                 driver_mem_footprint, st, driver_state, crashed>>

OtherRelease ==
  /\ ~crashed
  /\ UNCHANGED <<destroyed, drainVars, lockVars, reactorVars, logVars>>
  /\ other_consumption > 0
  /\ parent_mem_tracker' = Released(parent_mem_tracker, other_consumption)
  /\ other_consumption' = 0
  /\ DropRoundTrip
  /\ UNCHANGED <<setupVars, ndebug, mem_tracker_, metricVars, pending_operations_, pc, driver,
                 driver_mem_footprint, st, driver_state, crashed>>

(* ---- OperationTracker::Add ---- *)

\* Lines 134-135: the call, the read of SpaceUsed() and TryConsume.
AddTryConsume(t, d, bytes) ==
  /\ Alive
  /\ UNCHANGED <<destroyed, drainVars, lockVars, reactorVars, logVars>>
  /\ TakesCall(t)
  /\ driver_state[d] = "new"
  /\ \A e \in Drivers : e < d => driver_state[e] # "new"
  /\ driver' = [driver EXCEPT ![t] = d]
  /\ driver_state' = [driver_state EXCEPT ![d] = "adding"]
  /\ round_trip' = IF Quiescent THEN Snapshot(d) ELSE NULL
  /\ driver_mem_footprint' = [driver_mem_footprint EXCEPT ![t] = bytes]
  /\ IF AddRejects(bytes)
     THEN /\ pc' = [pc EXCEPT ![t] = "add_rejected"]
          /\ UNCHANGED <<mem_tracker_, parent_mem_tracker>>
     ELSE /\ pc' = [pc EXCEPT ![t] = "add_increment"]
          /\ IF mem_tracker_ # NULL
             THEN /\ mem_tracker_' = Consumed(mem_tracker_, bytes)
                  /\ parent_mem_tracker' = Consumed(parent_mem_tracker, bytes)
             ELSE UNCHANGED <<mem_tracker_, parent_mem_tracker>>
  /\ UNCHANGED <<setupVars, ndebug, other_consumption, metricVars, pending_operations_, st, crashed>>

\* (every rejection is logged)
ShouldLog_Always(last) == TRUE
\* YB_LOG_EVERY_N_SECS(WARNING, 1), line 149: the statement logs when it has
\* not logged before or a second or more has passed since it last did.
ShouldLog(last) == last = NULL \/ now - last.ts >= 1000000
\* The statement has logged now.
Logged == [ts |-> now]

\* (the in-flight gauge is bumped on the rejection path)
AddReject_CountsInflight(t) ==
  /\ Alive
  /\ UNCHANGED <<destroyed, drainVars, lockVars, reactorVars, logVars>>
  /\ pc[t] = "add_rejected"
  /\ KeepRoundTrip(driver[t])
  /\ operation_memory_pressure_rejections' =
       RejectionCounted(operation_memory_pressure_rejections)
  /\ driver_state' = [driver_state EXCEPT ![driver[t]] =
                        IF @ = "adding_again" THEN "pending" ELSE "rejected"]
  /\ Return(t)
  /\ all_operations_inflight' = GaugeIncrement(all_operations_inflight)
  /\ UNCHANGED <<setupVars, ndebug, memVars, operations_inflight, pending_operations_, st, crashed>>

\* Lines 136-151: the rejection is counted and ServiceUnavailable returned
\* (what line 149 writes to the log is followed by AddRejectLogged only).
AddReject(t) ==
  /\ Alive
  /\ UNCHANGED <<destroyed, drainVars, lockVars, reactorVars, logVars>>
  /\ pc[t] = "add_rejected"
  /\ KeepRoundTrip(driver[t])
  /\ operation_memory_pressure_rejections' =
       RejectionCounted(operation_memory_pressure_rejections)
  /\ driver_state' = [driver_state EXCEPT ![driver[t]] =
                        IF @ = "adding_again" THEN "pending" ELSE "rejected"]
  /\ Return(t)
  /\ UNCHANGED <<setupVars, ndebug, memVars, gaugeVars, pending_operations_, st, crashed>>

\* Lines 136-151 with the log followed: the rejection is counted, the warning
\* is logged unless one was logged less than a second ago, and
\* ServiceUnavailable is returned.
AddRejectLogged(t) ==
  /\ Alive
  /\ UNCHANGED <<destroyed, drainVars, lockVars, reactorVars>>
  /\ pc[t] = "add_rejected"
  /\ KeepRoundTrip(driver[t])
  /\ operation_memory_pressure_rejections' =
       RejectionCounted(operation_memory_pressure_rejections)
  /\ last_warning' = IF ShouldLog(last_warning) THEN Logged ELSE last_warning
  /\ driver_state' = [driver_state EXCEPT ![driver[t]] =
                        IF @ = "adding_again" THEN "pending" ELSE "rejected"]
  /\ Return(t)
  /\ UNCHANGED <<setupVars, ndebug, memVars, gaugeVars, pending_operations_, st, crashed>>

\* (without metrics the early return of IncrementCounters ends Add as well)
IncrementAll_ReturnsFromAdd(t) ==
  /\ Alive
  /\ UNCHANGED <<destroyed, drainVars, lockVars, reactorVars, logVars>>
  /\ pc[t] = "add_increment"
  /\ KeepRoundTrip(driver[t])
  /\ IF ~metrics_
     THEN /\ Return(t)
          /\ driver_state' = [driver_state EXCEPT ![driver[t]] = "pending"]
          /\ UNCHANGED all_operations_inflight
     ELSE /\ pc' = [pc EXCEPT ![t] = "add_increment_type"]
          /\ all_operations_inflight' = GaugeIncrement(all_operations_inflight)
          /\ UNCHANGED <<driver, driver_mem_footprint, driver_state>>
  /\ UNCHANGED <<setupVars, ndebug, memVars, operations_inflight,
                 operation_memory_pressure_rejections, pending_operations_,
                 st, crashed>>

\* IncrementCounters, lines 166-170.
IncrementAll(t) ==
  /\ Alive
  /\ UNCHANGED <<destroyed, drainVars, lockVars, reactorVars, logVars>>
  /\ pc[t] = "add_increment"
  /\ KeepRoundTrip(driver[t])
  /\ IF ~metrics_
     THEN /\ pc' = [pc EXCEPT ![t] = "add_insert"]
          /\ UNCHANGED all_operations_inflight
     ELSE /\ pc' = [pc EXCEPT ![t] = "add_increment_type"]
          /\ all_operations_inflight' = GaugeIncrement(all_operations_inflight)
  /\ UNCHANGED <<setupVars, ndebug, memVars, operations_inflight,
                 operation_memory_pressure_rejections, pending_operations_, driver,
                 driver_mem_footprint, st, driver_state, crashed>>

\* IncrementCounters, line 171.
IncrementType_SkipsCategory(t) ==
  /\ Alive
  /\ UNCHANGED <<destroyed, drainVars, lockVars, reactorVars, logVars>>
  /\ pc[t] = "add_increment_type"
  /\ KeepRoundTrip(driver[t])
  /\ operations_inflight' = operations_inflight
  /\ pc' = [pc EXCEPT ![t] = "add_insert"]
  /\ UNCHANGED <<setupVars, ndebug, memVars, all_operations_inflight,
                 operation_memory_pressure_rejections, pending_operations_, driver,
                 driver_mem_footprint, st, driver_state, crashed>>

IncrementType(t) ==
  /\ Alive
  /\ UNCHANGED <<destroyed, drainVars, lockVars, reactorVars, logVars>>
  /\ pc[t] = "add_increment_type"
  /\ KeepRoundTrip(driver[t])
  /\ operations_inflight' =
       [operations_inflight EXCEPT ![GaugeSlot(driver[t])] = GaugeIncrement(@)]
  /\ pc' = [pc EXCEPT ![t] = "add_insert"]
  /\ UNCHANGED <<setupVars, ndebug, memVars, all_operations_inflight,
                 operation_memory_pressure_rejections, pending_operations_, driver,
                 driver_mem_footprint, st, driver_state, crashed>>

\* (the footprint is read from the request again instead of the cached value)
AddInsert_RereadsRequest(t) ==
  /\ Alive
  /\ UNCHANGED <<destroyed, drainVars, lockVars, reactorVars, logVars>>
  /\ pc[t] = "add_insert"
  /\ KeepRoundTrip(driver[t])
  /\ IF driver[t] \in DOMAIN pending_operations_
     THEN /\ crashed' = TRUE
          /\ UNCHANGED <<pending_operations_, driver_state, pc, driver,
                         driver_mem_footprint>>
     ELSE /\ \E b \in Footprints :
               pending_operations_' = Emplaced(pending_operations_, driver[t], State(b))
          /\ driver_state' = [driver_state EXCEPT ![driver[t]] = "pending"]
          /\ Return(t)
          /\ UNCHANGED crashed
  /\ UNCHANGED <<setupVars, ndebug, memVars, metricVars, st>>

\* (a duplicate key has its State replaced and the call returns OK)
AddInsert_Overwrites(t) ==
  /\ Alive
  /\ UNCHANGED <<destroyed, drainVars, lockVars, reactorVars, logVars>>
  /\ pc[t] = "add_insert"
  /\ KeepRoundTrip(driver[t])
  /\ pending_operations_' =
       Emplaced(Erased(pending_operations_, driver[t]), driver[t],
                State(driver_mem_footprint[t]))
  /\ driver_state' = [driver_state EXCEPT ![driver[t]] = "pending"]
  /\ Return(t)
  /\ UNCHANGED crashed
  /\ UNCHANGED <<setupVars, ndebug, memVars, metricVars, st>>

\* Lines 158-162: the State is emplaced under lock_; CHECK on a duplicate key.
AddInsert(t) ==
  /\ Alive
  /\ UNCHANGED <<destroyed, drainVars, lockVars, reactorVars, logVars>>
  /\ pc[t] = "add_insert"
  /\ KeepRoundTrip(driver[t])
  /\ IF driver[t] \in DOMAIN pending_operations_
     THEN /\ crashed' = TRUE
          /\ UNCHANGED <<pending_operations_, driver_state, pc, driver,
                         driver_mem_footprint>>
     ELSE /\ pending_operations_' =
               Emplaced(pending_operations_, driver[t], State(driver_mem_footprint[t]))
          /\ driver_state' = [driver_state EXCEPT ![driver[t]] = "pending"]
          /\ Return(t)
          /\ UNCHANGED crashed
  /\ UNCHANGED <<setupVars, ndebug, memVars, metricVars, st>>

(* ---- OperationTracker::Release ---- *)

\* (the aggregate gauge is not decremented)
DecrementAll_SkipsAggregate(t, d) ==
  /\ Alive
  /\ UNCHANGED <<destroyed, drainVars, lockVars, reactorVars, logVars>>
  /\ TakesCall(t)
  /\ driver_state[d] = "pending"
  /\ driver' = [driver EXCEPT ![t] = d]
  /\ driver_state' = [driver_state EXCEPT ![d] = "releasing"]
  /\ KeepRoundTrip(d)
  /\ IF ~metrics_
     THEN /\ pc' = [pc EXCEPT ![t] = "release_erase"]
          /\ UNCHANGED <<all_operations_inflight, crashed, ndebug>>
     ELSE \/ /\ DcheckAborts(all_operations_inflight)
             /\ crashed' = TRUE
             /\ pc' = [pc EXCEPT ![t] = "release_decrement"]
             /\ UNCHANGED <<all_operations_inflight, ndebug>>
          \/ /\ all_operations_inflight' = all_operations_inflight
             /\ ndebug' = (ndebug \/ DcheckSkipped(all_operations_inflight))
             /\ pc' = [pc EXCEPT ![t] = "release_decrement_type"]
             /\ UNCHANGED crashed
  /\ UNCHANGED <<setupVars, memVars, operations_inflight,
                 operation_memory_pressure_rejections, pending_operations_,
                 driver_mem_footprint, st>>

\* The call and DecrementCounters, lines 175-180.
DecrementAll(t, d) ==
  /\ Alive
  /\ UNCHANGED <<destroyed, drainVars, lockVars, reactorVars, logVars>>
  /\ TakesCall(t)
  /\ driver_state[d] = "pending"
  /\ driver' = [driver EXCEPT ![t] = d]
  /\ driver_state' = [driver_state EXCEPT ![d] = "releasing"]
  /\ KeepRoundTrip(d)
  /\ IF ~metrics_
     THEN /\ pc' = [pc EXCEPT ![t] = "release_erase"]
          /\ UNCHANGED <<all_operations_inflight, crashed, ndebug>>
     ELSE \/ /\ DcheckAborts(all_operations_inflight)
             /\ crashed' = TRUE
             /\ pc' = [pc EXCEPT ![t] = "release_decrement"]
             /\ UNCHANGED <<all_operations_inflight, ndebug>>
          \/ /\ all_operations_inflight' = GaugeDecrement(all_operations_inflight)
             /\ ndebug' = (ndebug \/ DcheckSkipped(all_operations_inflight))
             /\ pc' = [pc EXCEPT ![t] = "release_decrement_type"]
             /\ UNCHANGED crashed
  /\ UNCHANGED <<setupVars, memVars, operations_inflight,
                 operation_memory_pressure_rejections, pending_operations_,
                 driver_mem_footprint, st>>

\* (the per-type gauge is left as it is)
DecrementType_SkipsCategory(t) ==
  /\ Alive
  /\ UNCHANGED <<destroyed, drainVars, lockVars, reactorVars, logVars>>
  /\ pc[t] = "release_decrement_type"
  /\ KeepRoundTrip(driver[t])
  /\ \/ /\ DcheckAborts(operations_inflight[GaugeSlot(driver[t])])
        /\ crashed' = TRUE
        /\ UNCHANGED <<operations_inflight, pc, ndebug>>
     \/ /\ operations_inflight' = operations_inflight
        /\ ndebug' = (ndebug \/ DcheckSkipped(operations_inflight[GaugeSlot(driver[t])]))
        /\ pc' = [pc EXCEPT ![t] = "release_erase"]
        /\ UNCHANGED crashed
  /\ UNCHANGED <<setupVars, memVars, all_operations_inflight,
                 operation_memory_pressure_rejections, pending_operations_, driver,
                 driver_mem_footprint, st, driver_state>>

\* DecrementCounters, lines 181-182.
DecrementType(t) ==
  /\ Alive
  /\ UNCHANGED <<destroyed, drainVars, lockVars, reactorVars, logVars>>
  /\ pc[t] = "release_decrement_type"
  /\ KeepRoundTrip(driver[t])
  /\ \/ /\ DcheckAborts(operations_inflight[GaugeSlot(driver[t])])
        /\ crashed' = TRUE
        /\ UNCHANGED <<operations_inflight, pc, ndebug>>
     \/ /\ operations_inflight' =
             [operations_inflight EXCEPT ![GaugeSlot(driver[t])] = GaugeDecrement(@)]
        /\ ndebug' = (ndebug \/ DcheckSkipped(operations_inflight[GaugeSlot(driver[t])]))
        /\ pc' = [pc EXCEPT ![t] = "release_erase"]
        /\ UNCHANGED crashed
  /\ UNCHANGED <<setupVars, memVars, all_operations_inflight,
                 operation_memory_pressure_rejections, pending_operations_, driver,
                 driver_mem_footprint, st, driver_state>>

\* (a driver that is not in the map is passed over)
ReleaseErase_IgnoresAbsent(t) ==
  /\ Alive
  /\ UNCHANGED <<destroyed, drainVars, lockVars, reactorVars, logVars>>
  /\ pc[t] = "release_erase"
  /\ KeepRoundTrip(driver[t])
  /\ IF driver[t] \notin DOMAIN pending_operations_
     THEN /\ pc' = [pc EXCEPT ![t] = "release_memory"]
          /\ UNCHANGED <<pending_operations_, st, crashed>>
     ELSE /\ st' = [st EXCEPT ![t] = pending_operations_[driver[t]]]
          /\ pending_operations_' = Erased(pending_operations_, driver[t])
          /\ pc' = [pc EXCEPT ![t] = "release_memory"]
          /\ UNCHANGED crashed
  /\ UNCHANGED <<setupVars, ndebug, memVars, metricVars, driver, driver_mem_footprint,
                 driver_state>>

\* (the State is copied and the entry stays in the map)
ReleaseErase_KeepsEntry(t) ==
  /\ Alive
  /\ UNCHANGED <<destroyed, drainVars, lockVars, reactorVars, logVars>>
  /\ pc[t] = "release_erase"
  /\ KeepRoundTrip(driver[t])
  /\ IF driver[t] \notin DOMAIN pending_operations_
     THEN /\ crashed' = TRUE
          /\ UNCHANGED <<pending_operations_, st, pc>>
     ELSE /\ st' = [st EXCEPT ![t] = pending_operations_[driver[t]]]
          /\ pending_operations_' = pending_operations_
          /\ pc' = [pc EXCEPT ![t] = "release_memory"]
          /\ UNCHANGED crashed
  /\ UNCHANGED <<setupVars, ndebug, memVars, metricVars, driver, driver_mem_footprint,
                 driver_state>>

\* Lines 188-198: FindOrDie and erase under lock_.
ReleaseErase(t) ==
  /\ Alive
  /\ UNCHANGED <<destroyed, drainVars, lockVars, reactorVars, logVars>>
  /\ pc[t] = "release_erase"
  /\ KeepRoundTrip(driver[t])
  /\ IF driver[t] \notin DOMAIN pending_operations_
     THEN /\ crashed' = TRUE
          /\ UNCHANGED <<pending_operations_, st, pc>>
     ELSE /\ st' = [st EXCEPT ![t] = pending_operations_[driver[t]]]
          /\ pending_operations_' = Erased(pending_operations_, driver[t])
          /\ pc' = [pc EXCEPT ![t] = "release_memory"]
          /\ UNCHANGED crashed
  /\ UNCHANGED <<setupVars, ndebug, memVars, metricVars, driver, driver_mem_footprint,
                 driver_state>>

\* (the request's current SpaceUsed() is released instead of the cached footprint)
ReleaseMemory_RereadsRequest(t) ==
  /\ Alive
  /\ UNCHANGED <<destroyed, drainVars, lockVars, reactorVars, logVars>>
  /\ pc[t] = "release_memory"
  /\ KeepRoundTrip(driver[t])
  /\ IF mem_tracker_ # NULL
     THEN \E b \in Footprints :
            /\ mem_tracker_' = Released(mem_tracker_, b)
            /\ parent_mem_tracker' = Released(parent_mem_tracker, b)
     ELSE UNCHANGED <<mem_tracker_, parent_mem_tracker>>
  /\ driver_state' = [driver_state EXCEPT ![driver[t]] = "released"]
  /\ st' = [st EXCEPT ![t] = State(0)]
  /\ Return(t)
  /\ UNCHANGED <<setupVars, ndebug, other_consumption, metricVars, pending_operations_, crashed>>

\* Lines 200-202: the cached footprint goes back to the tracker.
ReleaseMemory(t) ==
  /\ Alive
  /\ UNCHANGED <<destroyed, drainVars, lockVars, reactorVars, logVars>>
  /\ pc[t] = "release_memory"
  /\ KeepRoundTrip(driver[t])
  /\ IF mem_tracker_ # NULL
     THEN /\ mem_tracker_' = Released(mem_tracker_, st[t].memory_footprint)
          /\ parent_mem_tracker' = Released(parent_mem_tracker, st[t].memory_footprint)
     ELSE UNCHANGED <<mem_tracker_, parent_mem_tracker>>
  /\ driver_state' = [driver_state EXCEPT ![driver[t]] = "released"]
  /\ st' = [st EXCEPT ![t] = State(0)]
  /\ Return(t)
  /\ UNCHANGED <<setupVars, ndebug, other_consumption, metricVars, pending_operations_, crashed>>

(* ---- calls that break the caller's contract ---- *)

\* Lines 134-135 of an Add whose driver is already in pending_operations_ and
\* is not being released meanwhile.
AddDuplicate(t, d, bytes) ==
  /\ Alive
  /\ UNCHANGED <<destroyed, drainVars, lockVars, reactorVars, logVars>>
  /\ TakesCall(t)
  /\ driver_state[d] = "pending"
  /\ operation_memory_pressure_rejections < MaxOps
  /\ driver' = [driver EXCEPT ![t] = d]
  /\ driver_state' = [driver_state EXCEPT ![d] = "adding_again"]
  /\ DropRoundTrip
  /\ driver_mem_footprint' = [driver_mem_footprint EXCEPT ![t] = bytes]
  /\ IF AddRejects(bytes)
     THEN /\ pc' = [pc EXCEPT ![t] = "add_rejected"]
          /\ UNCHANGED <<mem_tracker_, parent_mem_tracker>>
     ELSE /\ pc' = [pc EXCEPT ![t] = "add_increment"]
          /\ IF mem_tracker_ # NULL
             THEN /\ mem_tracker_' = Consumed(mem_tracker_, bytes)
                  /\ parent_mem_tracker' = Consumed(parent_mem_tracker, bytes)
             ELSE UNCHANGED <<mem_tracker_, parent_mem_tracker>>
  /\ UNCHANGED <<setupVars, ndebug, other_consumption, metricVars, pending_operations_, st, crashed>>

\* The call and DecrementCounters (lines 175-180) of a Release whose driver is
\* not in pending_operations_: it was never passed to Add (and never will be),
\* its Add was rejected, or it was released before.
ReleaseUnknown(t, d) ==
  /\ Alive
  /\ UNCHANGED <<destroyed, drainVars, lockVars, reactorVars, logVars>>
  /\ TakesCall(t)
  /\ driver_state[d] \in {"new", "rejected", "released"}
  /\ driver_state[d] = "new" => \A e \in Drivers : e < d => driver_state[e] # "new"
  /\ driver' = [driver EXCEPT ![t] = d]
  /\ driver_state' = [driver_state EXCEPT ![d] = IF @ = "new" THEN "never_added" ELSE @]
  /\ DropRoundTrip
  /\ IF ~metrics_
     THEN /\ pc' = [pc EXCEPT ![t] = "release_erase"]
          /\ UNCHANGED <<all_operations_inflight, crashed, ndebug>>
     ELSE \/ /\ DcheckAborts(all_operations_inflight)
             /\ crashed' = TRUE
             /\ pc' = [pc EXCEPT ![t] = "release_decrement"]
             /\ UNCHANGED <<all_operations_inflight, ndebug>>
          \/ /\ all_operations_inflight' = GaugeDecrement(all_operations_inflight)
             /\ ndebug' = (ndebug \/ DcheckSkipped(all_operations_inflight))
             /\ pc' = [pc EXCEPT ![t] = "release_decrement_type"]
             /\ UNCHANGED crashed
  /\ UNCHANGED <<setupVars, memVars, operations_inflight,
                 operation_memory_pressure_rejections, pending_operations_,
                 driver_mem_footprint, st>>

\* (the destructor does not look at the map)
DestructorAborts_Never == FALSE
\* Line 127: CHECK_EQ(pending_operations_.size(), 0).
DestructorAborts == GetNumPendingForTests # 0

\* OperationTracker::~OperationTracker, lines 125-131, run when no call is in
\* progress (a call on an object under destruction is undefined).
Destroy ==
  /\ Alive
  /\ Quiescent
  /\ \A w \in Drainers : drain_pc[w] \in {"idle", "done"}
  /\ IF DestructorAborts
     THEN crashed' = TRUE /\ UNCHANGED destroyed
     ELSE destroyed' = TRUE /\ UNCHANGED crashed
  /\ DropRoundTrip
  /\ UNCHANGED <<setupVars, ndebug, memVars, metricVars, pending_operations_, pc, driver,
                 driver_mem_footprint, st, driver_state, drainVars, lockVars,
                 reactorVars, logVars>>

(* ---- OperationTracker::WaitForAllToFinish ---- *)

\* Caller w is the one that makes the next call (the callers are interchangeable).
TakesDrain(w) ==
  drain_pc[w] = "idle" /\ \A v \in Drainers : v < w => drain_pc[v] # "idle"

\* The Status the call returns; pending is the number of operations the
\* TimedOut message gives (operations.size(), line 243).
StatusOK == [code |-> "OK", pending |-> 0]
TimedOut(pending) == [code |-> "TimedOut", pending |-> pending]

\* The call returns status: the caller keeps it and the locals are gone.
DrainReturn(w, status) ==
  /\ drain_status' = [drain_status EXCEPT ![w] = status]
  /\ drain_pc' = [drain_pc EXCEPT ![w] = "done"]
  /\ timeout' = [timeout EXCEPT ![w] = Indefinitely]
  /\ check_ok' = [check_ok EXCEPT ![w] = FALSE]
  /\ start_time' = [start_time EXCEPT ![w] = 0]
  /\ operations' = [operations EXCEPT ![w] = {}]
  /\ wait_time' = [wait_time EXCEPT ![w] = 0]
  /\ num_complaints' = [num_complaints EXCEPT ![w] = 0]
  /\ wake_time' = [wake_time EXCEPT ![w] = 0]
  /\ polls' = [polls EXCEPT ![w] = 0]
  /\ sleeps' = [sleeps EXCEPT ![w] = 0]

\* Lines 228-231: the locals of WaitForAllToFinish(timeout).
DrainBegin(w, delta, checked) ==
  /\ Alive
  /\ TakesDrain(w)
  /\ timeout' = [timeout EXCEPT ![w] = delta]
  /\ check_ok' = [check_ok EXCEPT ![w] = checked]
  /\ wait_time' = [wait_time EXCEPT ![w] = kInitialWaitTime]
  /\ num_complaints' = [num_complaints EXCEPT ![w] = 0]
  /\ start_time' = [start_time EXCEPT ![w] = now]
  /\ drain_pc' = [drain_pc EXCEPT ![w] = "poll"]
  /\ UNCHANGED <<now, operations, wake_time, drain_status, polls, sleeps>>
  /\ UNCHANGED trackerVars

\* (the overload without argument passes a zero MonoDelta)
WaitForAllToFinish_ZeroTimeout(w) == DrainBegin(w, FromMicroseconds(0), TRUE)

\* WaitForAllToFinish(), lines 222-225: waits indefinitely, result in CHECK_OK.
WaitForAllToFinish(w) == DrainBegin(w, Indefinitely, TRUE)

\* WaitForAllToFinish(timeout), lines 227-231.
WaitForAllToFinishTimeout(w, delta) == DrainBegin(w, delta, FALSE)

\* Line 233, at the first iteration or when SleepFor (line 257) has returned,
\* not before wait_time has passed: the pending operations are copied under lock_.
DrainPollUpTo(w, followed) ==
  /\ Alive
  /\ drain_pc[w] = "poll" \/ (drain_pc[w] = "sleep" /\ now >= wake_time[w])
  /\ polls[w] < followed
  /\ operations' = [operations EXCEPT ![w] = GetPendingOperations]
  /\ polls' = [polls EXCEPT ![w] = @ + 1]
  /\ drain_pc' = [drain_pc EXCEPT ![w] = "check"]
  /\ UNCHANGED <<now, timeout, check_ok, start_time, wait_time, num_complaints, wake_time,
                 drain_status, sleeps>>
  /\ UNCHANGED trackerVars

DrainPoll(w) == DrainPollUpTo(w, MaxPolls)

\* (start_time is taken anew at every iteration)
Elapsed_SinceThisPoll(w) == 0
\* (start_time is shared by the calls in progress: the first caller's)
Elapsed_SinceFirstCall(w) == now - start_time[1]
\* Line 239: diff = MonoTime::Now().GetDeltaSince(start_time).
Elapsed(w) == now - start_time[w]

\* (the deadline is looked at before the copy of the pending operations)
LoopOutcome_DeadlineFirst(w) ==
  IF MoreThan(Elapsed(w), timeout[w]) THEN "TimedOut"
  ELSE IF operations[w] = {} THEN "OK"
  ELSE "sleep"
\* (the copy is not tested for emptiness)
LoopOutcome_NeverOK(w) ==
  IF MoreThan(Elapsed(w), timeout[w]) THEN "TimedOut" ELSE "sleep"
\* Lines 235-244: what this iteration of the loop ends with.
LoopOutcome(w) ==
  IF operations[w] = {} THEN "OK"
  ELSE IF MoreThan(Elapsed(w), timeout[w]) THEN "TimedOut"
  ELSE "sleep"

\* (the loop is left with break when the time is up)
Expired_Breaks(w) == StatusOK
\* Lines 241-243: the TimedOut status carries operations.size().
Expired(w) == TimedOut(Cardinality(operations[w]))

\* Lines 235-257: an empty copy ends the call with OK; a copy that is not
\* empty ends it with TimedOut when the time is up; otherwise the complaint is
\* logged once per complain_ms, wait_time grows and the thread enters
\* SleepFor(wait_time).  WaitForAllToFinish() aborts on a result that is not OK.
DrainCheck(w) ==
  /\ Alive
  /\ drain_pc[w] = "check"
  /\ LET waited_ms == Elapsed(w) \div 1000
     IN CASE LoopOutcome(w) = "OK" ->
               /\ DrainReturn(w, StatusOK)
               /\ UNCHANGED crashed
          [] LoopOutcome(w) = "TimedOut" ->
               /\ DrainReturn(w, Expired(w))
               /\ crashed' = (crashed \/ (check_ok[w] /\ Expired(w) # StatusOK))
          [] OTHER ->
               /\ num_complaints' =
                    [num_complaints EXCEPT
                       ![w] = IF waited_ms \div complain_ms > @ THEN @ + 1 ELSE @]
               /\ wait_time' = [wait_time EXCEPT ![w] = Min((@ * 5) \div 4, kMaxWaitTime)]
               /\ wake_time' = [wake_time EXCEPT ![w] = now + wait_time'[w]]
               /\ sleeps' = [sleeps EXCEPT ![w] = @ + 1]
               /\ drain_pc' = [drain_pc EXCEPT ![w] = "sleep"]
               /\ UNCHANGED <<timeout, check_ok, start_time, operations, polls,
                              drain_status, crashed>>
  /\ UNCHANGED now
  /\ UNCHANGED <<setupVars, ndebug, memVars, metricVars, pending_operations_, pc, driver,
                 driver_mem_footprint, st, driver_state, round_trip, destroyed,
                 lockVars, reactorVars, logVars>>

(* ---- the clock ---- *)

SleepersAmong(callers) == {w \in callers : drain_pc[w] = "sleep" /\ wake_time[w] > now}
Sleepers == SleepersAmong(Drainers)

\* Time reaches the end of the next SleepFor of one of the callers.
TimeReachesWakeAmong(callers) ==
  /\ SleepersAmong(callers) # {}
  /\ now' = CHOOSE x \in {wake_time[w] : w \in SleepersAmong(callers)} :
              \A w \in SleepersAmong(callers) : x <= wake_time[w]
  /\ UNCHANGED <<drain_pc, timeout, check_ok, start_time, operations, wait_time,
                 num_complaints, wake_time, drain_status, polls, sleeps>>
  /\ UNCHANGED trackerVars

TimeReachesWake == TimeReachesWakeAmong(Drainers)

\* Time passes while the threads are descheduled or busy.
TimePasses(d) ==
  /\ now + d <= Horizon
  /\ now' = now + d
  /\ UNCHANGED <<drain_pc, timeout, check_ok, start_time, operations, wait_time,
                 num_complaints, wake_time, drain_status, polls, sleeps>>
  /\ UNCHANGED trackerVars

\* The tracker as a tablet peer has set it up before it serves requests:
\* memory tracking started with a limit of 1 MB, no metric entity.
DrainInit ==
  /\ tablet_operation_memory_limit_mb = 1
  /\ ndebug = FALSE
  /\ mem_tracker_ = [limit |-> kBytesPerMb, consumption |-> 0]
  /\ \E l \in ParentLimits : parent_mem_tracker = [limit |-> l, consumption |-> 0]
  /\ other_consumption = 0
  /\ metrics_ = FALSE
  /\ all_operations_inflight = 0
  /\ operations_inflight = [ty \in OperationTypes |-> 0]
  /\ operation_memory_pressure_rejections = 0
  /\ pending_operations_ = <<>>
  /\ pc = [t \in Threads |-> "idle"]
  /\ driver = [t \in Threads |-> 0]
  /\ driver_mem_footprint = [t \in Threads |-> 0]
  /\ st = [t \in Threads |-> State(0)]
  /\ driver_state = [d \in Drivers |-> "new"]
  /\ crashed = FALSE
  /\ tracking_late = FALSE
  /\ instrumented_late = FALSE
  /\ instrumented_again = FALSE
  /\ round_trip = NULL
  /\ destroyed = FALSE
  /\ NoDrain
  /\ Unlocked
  /\ NoReactor
  /\ NoWarning

\* The requests that arrive while a caller drains take 1 MB each.
DrainNext ==
  \/ \E t \in Threads, d \in Drivers : AddTryConsume(t, d, kBytesPerMb)
  \/ \E t \in Threads : AddReject(t)
  \/ \E t \in Threads : IncrementAll(t)
  \/ \E t \in Threads : AddInsert(t)
  \/ \E t \in Threads, d \in Drivers : DecrementAll(t, d)
  \/ \E t \in Threads : ReleaseErase(t)
  \/ \E t \in Threads : ReleaseMemory(t)
  \/ \E w \in Drainers : WaitForAllToFinish(w)
  \/ \E w \in Drainers, delta \in Timeouts : WaitForAllToFinishTimeout(w, delta)
  \/ \E w \in Drainers : DrainPoll(w)
  \/ \E w \in Drainers : DrainCheck(w)
  \/ TimeReachesWake
  \/ \E d \in Delays : TimePasses(d)

DrainSpec == DrainInit /\ [][DrainNext]_vars

\* A thread inside WaitForAllToFinish is scheduled again and again, and the
\* time its SleepFor waits for comes.
DrainFairness ==
  /\ \A w \in Drainers : WF_vars(DrainPoll(w)) /\ WF_vars(DrainCheck(w))
  /\ WF_vars(TimeReachesWake)

\* The operations that are admitted are never released.
NeverReleasedNext ==
  \/ \E t \in Threads, d \in Drivers : AddTryConsume(t, d, kBytesPerMb)
  \/ \E t \in Threads : AddReject(t)
  \/ \E t \in Threads : IncrementAll(t)
  \/ \E t \in Threads : AddInsert(t)
  \/ \E w \in Drainers : WaitForAllToFinish(w)
  \/ \E w \in Drainers, delta \in Timeouts : WaitForAllToFinishTimeout(w, delta)
  \/ \E w \in Drainers : DrainPoll(w)
  \/ \E w \in Drainers : DrainCheck(w)
  \/ TimeReachesWake
  \/ \E d \in Delays : TimePasses(d)

DrainLive == DrainInit /\ [][NeverReleasedNext]_vars /\ DrainFairness

\* Timeouts of the calls that wait for an operation that stays pending.
OverrunTimeouts == {FromMicroseconds(0), FromMicroseconds(300), FromMicroseconds(1000000),
                    FromMicroseconds(6000000)}

\* The tracker of DrainInit with driver 1 pending: its Add of 1 MB has returned.
OnePending ==
  /\ tablet_operation_memory_limit_mb = 1
  /\ ndebug = FALSE
  /\ mem_tracker_ = [limit |-> kBytesPerMb, consumption |-> kBytesPerMb]
  /\ \E l \in ParentLimits : parent_mem_tracker = [limit |-> l, consumption |-> kBytesPerMb]
  /\ other_consumption = 0
  /\ metrics_ = FALSE
  /\ all_operations_inflight = 0
  /\ operations_inflight = [ty \in OperationTypes |-> 0]
  /\ operation_memory_pressure_rejections = 0
  /\ pending_operations_ = Emplaced(<<>>, 1, State(kBytesPerMb))
  /\ pc = [t \in Threads |-> "idle"]
  /\ driver = [t \in Threads |-> 0]
  /\ driver_mem_footprint = [t \in Threads |-> 0]
  /\ st = [t \in Threads |-> State(0)]
  /\ driver_state = [d \in Drivers |-> IF d = 1 THEN "pending" ELSE "new"]
  /\ crashed = FALSE
  /\ tracking_late = FALSE
  /\ instrumented_late = FALSE
  /\ instrumented_again = FALSE
  /\ round_trip = NULL
  /\ destroyed = FALSE
  /\ Unlocked
  /\ NoReactor
  /\ NoWarning

OverrunInit == OnePending /\ NoDrain

\* One call of WaitForAllToFinish(timeout) while the operation stays pending;
\* the polls take no time and every SleepFor lasts what it was asked for.
OverrunNext ==
  \/ \E delta \in OverrunTimeouts : WaitForAllToFinishTimeout(1, delta)
  \/ \E w \in Drainers : DrainPollUpTo(w, MaxBackoff)
  \/ \E w \in Drainers : DrainCheck(w)
  \/ TimeReachesWake

OverrunSpec == OverrunInit /\ [][OverrunNext]_vars

\* The threads that call WaitForAllToFinish while another call is in progress.
ConcurrentDrainers == 1..(NumDrainers + 1)

ConcurrentInit == OnePending /\ NoDrainAmong(ConcurrentDrainers)

\* Several threads wait for the one pending operation, each from its own
\* moment and with its own timeout (the first of them possibly without one);
\* the operation may be released meanwhile.
ConcurrentNext ==
  \/ WaitForAllToFinish(1)
  \/ \E w \in ConcurrentDrainers, delta \in Timeouts : WaitForAllToFinishTimeout(w, delta)
  \/ \E w \in ConcurrentDrainers : DrainPoll(w)
  \/ \E w \in ConcurrentDrainers : DrainCheck(w)
  \/ \E t \in Threads, d \in Drivers : DecrementAll(t, d)
  \/ \E t \in Threads : ReleaseErase(t)
  \/ \E t \in Threads : ReleaseMemory(t)
  \/ TimeReachesWakeAmong(ConcurrentDrainers)
  \/ \E d \in Delays : TimePasses(d)

ConcurrentSpec == ConcurrentInit /\ [][ConcurrentNext]_vars

\* The iterations of the loop are followed up to MaxPolls while an operation
\* is pending; the poll that comes once the last one is released always is.
DrainPollWhilePending(w) ==
  DrainPollUpTo(w, IF pending_operations_ = <<>> THEN polls[w] + 1 ELSE MaxPolls)

\* No operation is admitted any more; the pending one is released while
\* threads wait in WaitForAllToFinish, without or with a timeout.
ReleasedNext ==
  \/ \E t \in Threads, d \in Drivers : DecrementAll(t, d)
  \/ \E t \in Threads : ReleaseErase(t)
  \/ \E t \in Threads : ReleaseMemory(t)
  \/ \E w \in Drainers : WaitForAllToFinish(w)
  \/ \E w \in Drainers, delta \in Timeouts : WaitForAllToFinishTimeout(w, delta)
  \/ \E w \in Drainers : DrainPollWhilePending(w)
  \/ \E w \in Drainers : DrainCheck(w)
  \/ TimeReachesWake
  \/ \E d \in Delays : TimePasses(d)

\* The steps of the threads inside Release or WaitForAllToFinish and the end
\* of a SleepFor; a call that begins and time passing otherwise are not.
ReleasedProgress ==
  \/ \E t \in Threads, d \in Drivers : DecrementAll(t, d)
  \/ \E t \in Threads : ReleaseErase(t)
  \/ \E t \in Threads : ReleaseMemory(t)
  \/ \E w \in Drainers : DrainPollWhilePending(w)
  \/ \E w \in Drainers : DrainCheck(w)
  \/ TimeReachesWake

\* The pending operation is released, and as long as one of the threads can
\* take a step one of them does (less than fairness to each of them).
ReleasedFairness == WF_vars(ReleasedProgress)

ReleasedLive == OverrunInit /\ [][ReleasedNext]_vars /\ ReleasedFairness

\* Sizes of the requests that arrive under overload: one that fits the limit
\* of 1 MB and one that never does.
RejectRequests == {kBytesPerMb, 2 * kBytesPerMb}

\* Time between two requests.
RejectDelays == {500000, 1000000}

\* The tracker of DrainInit, with or without a metric entity.
RejectInit ==
  /\ tablet_operation_memory_limit_mb = 1
  /\ ndebug = FALSE
  /\ mem_tracker_ = [limit |-> kBytesPerMb, consumption |-> 0]
  /\ \E l \in ParentLimits : parent_mem_tracker = [limit |-> l, consumption |-> 0]
  /\ other_consumption = 0
  /\ metrics_ \in BOOLEAN
  /\ all_operations_inflight = 0
  /\ operations_inflight = [ty \in OperationTypes |-> 0]
  /\ operation_memory_pressure_rejections = 0
  /\ pending_operations_ = <<>>
  /\ pc = [t \in Threads |-> "idle"]
  /\ driver = [t \in Threads |-> 0]
  /\ driver_mem_footprint = [t \in Threads |-> 0]
  /\ st = [t \in Threads |-> State(0)]
  /\ driver_state = [d \in Drivers |-> "new"]
  /\ crashed = FALSE
  /\ tracking_late = FALSE
  /\ instrumented_late = FALSE
  /\ instrumented_again = FALSE
  /\ round_trip = NULL
  /\ destroyed = FALSE
  /\ NoDrain
  /\ Unlocked
  /\ NoReactor
  /\ NoWarning

\* Requests arrive over time, some of them more than the limit allows.
RejectNext ==
  \/ \E t \in Threads, d \in Drivers, bytes \in RejectRequests : AddTryConsume(t, d, bytes)
  \/ \E t \in Threads : AddRejectLogged(t)
  \/ \E t \in Threads : IncrementAll(t)
  \/ \E t \in Threads : AddInsert(t)
  \/ \E d \in RejectDelays : TimePasses(d)

RejectSpec == RejectInit /\ [][RejectNext]_vars

Next ==
  \/ StartInstrumentation
  \/ StartMemoryTracking
  \/ \E b \in OtherBytes : OtherConsume(b)
  \/ OtherRelease
  \/ \E t \in Threads, d \in Drivers, b \in Footprints : AddTryConsume(t, d, b)
  \/ \E t \in Threads : AddReject(t)
  \/ \E t \in Threads : IncrementAll(t)
  \/ \E t \in Threads : IncrementType(t)
  \/ \E t \in Threads : AddInsert(t)
  \/ \E t \in Threads, d \in Drivers : DecrementAll(t, d)
  \/ \E t \in Threads : DecrementType(t)
  \/ \E t \in Threads : ReleaseErase(t)
  \/ \E t \in Threads : ReleaseMemory(t)

Spec == Init /\ [][Next]_vars

\* The tracker is set up before its first call: StartMemoryTracking was
\* called with the flag at -1 or at 2, StartInstrumentation was called or not.
MisuseInit ==
  /\ tablet_operation_memory_limit_mb \in {-1, 2}
  /\ ndebug = FALSE
  /\ mem_tracker_ = IF tablet_operation_memory_limit_mb = -1 THEN NULL
                    ELSE [limit |-> tablet_operation_memory_limit_mb * kBytesPerMb,
                          consumption |-> 0]
  /\ \E l \in ParentLimits : parent_mem_tracker = [limit |-> l, consumption |-> 0]
  /\ other_consumption = 0
  /\ metrics_ \in BOOLEAN
  /\ all_operations_inflight = 0
  /\ operations_inflight = [ty \in OperationTypes |-> 0]
  /\ operation_memory_pressure_rejections = 0
  /\ pending_operations_ = <<>>
  /\ pc = [t \in Threads |-> "idle"]
  /\ driver = [t \in Threads |-> 0]
  /\ driver_mem_footprint = [t \in Threads |-> 0]
  /\ st = [t \in Threads |-> State(0)]
  /\ driver_state = [d \in Drivers |-> "new"]
  /\ crashed = FALSE
  /\ tracking_late = FALSE
  /\ instrumented_late = FALSE
  /\ instrumented_again = FALSE
  /\ round_trip = NULL
  /\ destroyed = FALSE
  /\ NoDrain
  /\ Unlocked
  /\ NoReactor
  /\ NoWarning

\* Add and Release of 1 MB requests, together with the calls that break the
\* contract and the destructor.
MisuseNext ==
  \/ \E t \in Threads, d \in Drivers : AddTryConsume(t, d, kBytesPerMb)
  \/ \E t \in Threads, d \in Drivers, b \in Footprints : AddDuplicate(t, d, b)
  \/ \E t \in Threads : AddReject(t)
  \/ \E t \in Threads : IncrementAll(t)
  \/ \E t \in Threads : IncrementType(t)
  \/ \E t \in Threads : AddInsert(t)
  \/ \E t \in Threads, d \in Drivers : DecrementAll(t, d)
  \/ \E t \in Threads, d \in Drivers : ReleaseUnknown(t, d)
  \/ \E t \in Threads : DecrementType(t)
  \/ \E t \in Threads : ReleaseErase(t)
  \/ \E t \in Threads : ReleaseMemory(t)
  \/ Destroy

MisuseSpec == MisuseInit /\ [][MisuseNext]_vars

\* A tracker with its memory tracking set up, instrumented at any moment and
\* any number of times while it serves 1 MB requests.
InstrumentNext ==
  \/ StartInstrumentation
  \/ StartInstrumentationAgain
  \/ \E t \in Threads, d \in Drivers : AddTryConsume(t, d, kBytesPerMb)
  \/ \E t \in Threads : AddReject(t)
  \/ \E t \in Threads : IncrementAll(t)
  \/ \E t \in Threads : IncrementType(t)
  \/ \E t \in Threads : AddInsert(t)
  \/ \E t \in Threads, d \in Drivers : DecrementAll(t, d)
  \/ \E t \in Threads : DecrementType(t)
  \/ \E t \in Threads : ReleaseErase(t)
  \/ \E t \in Threads : ReleaseMemory(t)

InstrumentSpec == DrainInit /\ [][InstrumentNext]_vars

(* ---- lock_ ---- *)

\* std::lock_guard<simple_spinlock> l(lock_) by thread t of the callers of
\* Add and Release, or by caller w of GetPendingOperations.
Holder(kind, id) == [kind |-> kind, id |-> id]
Range(seq) == {seq[i] : i \in DOMAIN seq}

\* Line 160: Add takes lock_.
AddLock(t) ==
  /\ Alive
  /\ pc[t] = "add_insert"
  /\ lock_ = NoHolder
  /\ lock_' = Holder("thread", t)
  /\ pc' = [pc EXCEPT ![t] = "add_locked"]
  /\ KeepRoundTrip(driver[t])
  /\ UNCHANGED <<setupVars, ndebug, memVars, metricVars, pending_operations_, driver,
                 driver_mem_footprint, st, driver_state, crashed, destroyed, drainVars,
                 result, reactorVars, logVars>>

\* Lines 161-162: the emplace with its CHECK, and the return, which is where
\* the lock_guard goes out of scope.
AddEmplace(t) ==
  /\ Alive
  /\ pc[t] = "add_locked"
  /\ KeepRoundTrip(driver[t])
  /\ IF driver[t] \in DOMAIN pending_operations_
     THEN /\ crashed' = TRUE
          /\ UNCHANGED <<pending_operations_, driver_state, pc, driver,
                         driver_mem_footprint, lock_>>
     ELSE /\ pending_operations_' =
               Emplaced(pending_operations_, driver[t], State(driver_mem_footprint[t]))
          /\ driver_state' = [driver_state EXCEPT ![driver[t]] = "pending"]
          /\ Return(t)
          /\ lock_' = NoHolder
          /\ UNCHANGED crashed
  /\ UNCHANGED <<setupVars, ndebug, memVars, metricVars, st, destroyed, drainVars, result,
                 reactorVars, logVars>>

\* Line 192: Release takes lock_.
ReleaseLock(t) ==
  /\ Alive
  /\ pc[t] = "release_erase"
  /\ lock_ = NoHolder
  /\ lock_' = Holder("thread", t)
  /\ pc' = [pc EXCEPT ![t] = "release_locked"]
  /\ KeepRoundTrip(driver[t])
  /\ UNCHANGED <<setupVars, ndebug, memVars, metricVars, pending_operations_, driver,
                 driver_mem_footprint, st, driver_state, crashed, destroyed, drainVars,
                 result, reactorVars, logVars>>

\* (the block of the lock_guard extends to the end of Release)
ReleaseFindAndErase_KeepsLock(t) ==
  /\ Alive
  /\ pc[t] = "release_locked"
  /\ KeepRoundTrip(driver[t])
  /\ IF driver[t] \notin DOMAIN pending_operations_
     THEN /\ crashed' = TRUE
          /\ UNCHANGED <<pending_operations_, st, pc, lock_>>
     ELSE /\ st' = [st EXCEPT ![t] = pending_operations_[driver[t]]]
          /\ pending_operations_' = Erased(pending_operations_, driver[t])
          /\ pc' = [pc EXCEPT ![t] = "release_memory"]
          /\ lock_' = lock_
          /\ UNCHANGED crashed
  /\ UNCHANGED <<setupVars, ndebug, memVars, metricVars, driver, driver_mem_footprint,
                 driver_state, destroyed, drainVars, result, reactorVars, logVars>>

\* Lines 193-198: FindOrDie, erase, and the end of the block of the lock_guard.
ReleaseFindAndErase(t) ==
  /\ Alive
  /\ pc[t] = "release_locked"
  /\ KeepRoundTrip(driver[t])
  /\ IF driver[t] \notin DOMAIN pending_operations_
     THEN /\ crashed' = TRUE
          /\ UNCHANGED <<pending_operations_, st, pc, lock_>>
     ELSE /\ st' = [st EXCEPT ![t] = pending_operations_[driver[t]]]
          /\ pending_operations_' = Erased(pending_operations_, driver[t])
          /\ pc' = [pc EXCEPT ![t] = "release_memory"]
          /\ lock_' = NoHolder
          /\ UNCHANGED crashed
  /\ UNCHANGED <<setupVars, ndebug, memVars, metricVars, driver, driver_mem_footprint,
                 driver_state, destroyed, drainVars, result, reactorVars, logVars>>

\* What the copying caller leaves unchanged.
CopyFrame ==
  /\ UNCHANGED <<setupVars, ndebug, memVars, metricVars, pending_operations_, pc, driver,
                 driver_mem_footprint, st, driver_state, crashed, round_trip, destroyed,
                 reactorVars, logVars>>
  /\ UNCHANGED <<now, timeout, check_ok, start_time, wait_time, num_complaints,
                 wake_time, drain_status, polls, sleeps>>

\* (result is filled without lock_)
GetPendingOperationsLock_Unlocked(w) ==
  /\ Alive
  /\ TakesDrain(w)
  /\ lock_' = lock_
  /\ result' = [result EXCEPT ![w] = << >>]
  /\ drain_pc' = [drain_pc EXCEPT ![w] = "copying"]
  /\ UNCHANGED operations
  /\ CopyFrame

\* Lines 206-209: an empty result, and lock_ taken.
GetPendingOperationsLock(w) ==
  /\ Alive
  /\ TakesDrain(w)
  /\ lock_ = NoHolder
  /\ lock_' = Holder("caller", w)
  /\ result' = [result EXCEPT ![w] = << >>]
  /\ drain_pc' = [drain_pc EXCEPT ![w] = "copying"]
  /\ UNCHANGED operations
  /\ CopyFrame

\* Lines 210-212: the loop over pending_operations_ reaches an entry it has
\* not visited, in the order of the unordered_map, which is any order.
PushBack(w, d) ==
  /\ Alive
  /\ drain_pc[w] = "copying"
  /\ d \in DOMAIN pending_operations_ \ Range(result[w])
  /\ result' = [result EXCEPT ![w] = Append(@, d)]
  /\ UNCHANGED <<lock_, drain_pc, operations>>
  /\ CopyFrame

\* Lines 213-214: the loop has visited every entry; the block of the
\* lock_guard ends and result is returned to the caller.
GetPendingOperationsReturn(w) ==
  /\ Alive
  /\ drain_pc[w] = "copying"
  /\ DOMAIN pending_operations_ \subseteq Range(result[w])
  /\ lock_' = NoHolder
  /\ operations' = [operations EXCEPT ![w] = Range(result[w])]
  /\ drain_pc' = [drain_pc EXCEPT ![w] = "idle"]
  /\ UNCHANGED result
  /\ CopyFrame

\* A tracker set up with a limit of 2 MB and with metrics.
LockInit ==
  /\ tablet_operation_memory_limit_mb = 2
  /\ ndebug = FALSE
  /\ mem_tracker_ = [limit |-> 2 * kBytesPerMb, consumption |-> 0]
  /\ \E l \in ParentLimits : parent_mem_tracker = [limit |-> l, consumption |-> 0]
  /\ other_consumption = 0
  /\ metrics_ = TRUE
  /\ all_operations_inflight = 0
  /\ operations_inflight = [ty \in OperationTypes |-> 0]
  /\ operation_memory_pressure_rejections = 0
  /\ pending_operations_ = <<>>
  /\ pc = [t \in Threads |-> "idle"]
  /\ driver = [t \in Threads |-> 0]
  /\ driver_mem_footprint = [t \in Threads |-> 0]
  /\ st = [t \in Threads |-> State(0)]
  /\ driver_state = [d \in Drivers |-> "new"]
  /\ crashed = FALSE
  /\ tracking_late = FALSE
  /\ instrumented_late = FALSE
  /\ instrumented_again = FALSE
  /\ round_trip = NULL
  /\ destroyed = FALSE
  /\ NoDrain
  /\ Unlocked
  /\ NoReactor
  /\ NoWarning

\* Add and Release of 1 MB and 2 MB requests and calls of
\* GetPendingOperations, with the steps of lock_.
LockNext ==
  \/ \E t \in Threads, d \in Drivers, b \in Footprints : AddTryConsume(t, d, b)
  \/ \E t \in Threads : AddReject(t)
  \/ \E t \in Threads : IncrementAll(t)
  \/ \E t \in Threads : IncrementType(t)
  \/ \E t \in Threads : AddLock(t)
  \/ \E t \in Threads : AddEmplace(t)
  \/ \E t \in Threads, d \in Drivers : DecrementAll(t, d)
  \/ \E t \in Threads : DecrementType(t)
  \/ \E t \in Threads : ReleaseLock(t)
  \/ \E t \in Threads : ReleaseFindAndErase(t)
  \/ \E t \in Threads : ReleaseMemory(t)
  \/ \E w \in Drainers : GetPendingOperationsLock(w)
  \/ \E w \in Drainers, d \in Drivers : PushBack(w, d)
  \/ \E w \in Drainers : GetPendingOperationsReturn(w)

LockSpec == LockInit /\ [][LockNext]_vars

(* ---- the messenger and its reactors ---- *)

\* A task before it is given to ScheduleOnReactor.  reactor and thread are
\* reactor numbers (0: none), from is the reactor whose callback scheduled the
\* task (0: a thread that is not a reactor's).
NewTask == [state |-> "new", reactor |-> 0, due |-> 0, status |-> "none",
            thread |-> 0, from |-> 0]

\* ScheduleOnReactor's choice: the reactor of the calling thread if it is a
\* reactor thread, any reactor otherwise.
ChosenReactors_Any(caller) == Reactors
ChosenReactors(caller) == IF caller \in Reactors THEN {caller} ELSE Reactors

\* The task ScheduleOnReactor takes next.
NextTask(k) ==
  /\ scheduled_tasks[k].state = "new"
  /\ \A j \in Tasks : j < k => scheduled_tasks[j].state # "new"

\* Reactor r's thread calls the task's function with status.
Invoke(r, k, status) ==
  /\ running_task[r] = 0
  /\ scheduled_tasks[k].reactor = r
  /\ scheduled_tasks' = [scheduled_tasks EXCEPT ![k].state = "running",
                                                ![k].status = status,
                                                ![k].thread = r]
  /\ running_task' = [running_task EXCEPT ![r] = k]

\* A messenger of n_reactors reactors, nothing scheduled; an idle tracker.
ReactorInit ==
  /\ tablet_operation_memory_limit_mb = -1
  /\ ndebug = FALSE
  /\ mem_tracker_ = NULL
  /\ \E l \in ParentLimits : parent_mem_tracker = [limit |-> l, consumption |-> 0]
  /\ other_consumption = 0
  /\ metrics_ = FALSE
  /\ all_operations_inflight = 0
  /\ operations_inflight = [ty \in OperationTypes |-> 0]
  /\ operation_memory_pressure_rejections = 0
  /\ pending_operations_ = <<>>
  /\ pc = [t \in Threads |-> "idle"]
  /\ driver = [t \in Threads |-> 0]
  /\ driver_mem_footprint = [t \in Threads |-> 0]
  /\ st = [t \in Threads |-> State(0)]
  /\ driver_state = [d \in Drivers |-> "new"]
  /\ crashed = FALSE
  /\ tracking_late = FALSE
  /\ instrumented_late = FALSE
  /\ instrumented_again = FALSE
  /\ round_trip = NULL
  /\ destroyed = FALSE
  /\ NoDrain
  /\ Unlocked
  /\ closing_ = FALSE
  /\ scheduled_tasks = [k \in Tasks |-> NewTask]
  /\ running_task = [r \in Reactors |-> 0]
  /\ NoWarning

\* Messenger::ScheduleOnReactor(func, delay) called by a thread that is not a
\* reactor's (the test's thread).
ScheduleOnReactor(k, r, delay) ==
  /\ ~closing_
  /\ NextTask(k)
  /\ r \in ChosenReactors(0)
  /\ scheduled_tasks' = [scheduled_tasks EXCEPT ![k].state = "scheduled",
                                                ![k].reactor = r,
                                                ![k].due = now + delay]
  /\ UNCHANGED <<closing_, running_task, now>>

\* ScheduleOnReactor called from the function that reactor r's thread is
\* running (ScheduledTaskScheduleAgain).
ScheduleFromCallback(r, k, q, delay) ==
  /\ ~closing_
  /\ running_task[r] # 0
  /\ NextTask(k)
  /\ q \in ChosenReactors(r)
  /\ scheduled_tasks' = [scheduled_tasks EXCEPT ![k].state = "scheduled",
                                                ![k].reactor = q,
                                                ![k].due = now + delay,
                                                ![k].from = r]
  /\ UNCHANGED <<closing_, running_task, now>>

\* The task's timer expires on its reactor: the function is called with OK.
TimerFires(r, k) ==
  /\ scheduled_tasks[k].state = "scheduled"
  /\ now >= scheduled_tasks[k].due
  /\ Invoke(r, k, "OK")
  /\ UNCHANGED <<closing_, now>>

\* (a task that is waiting when the messenger shuts down is discarded)
AbortTask_Discards(r, k) ==
  /\ scheduled_tasks[k].state = "aborting"
  /\ scheduled_tasks[k].reactor = r
  /\ running_task[r] = 0
  /\ scheduled_tasks' = [scheduled_tasks EXCEPT ![k].state = "done"]
  /\ UNCHANGED <<closing_, running_task, now>>

\* The reactor, shutting down, calls the function of a task whose timer it
\* has stopped with Aborted.
AbortTask(r, k) ==
  /\ scheduled_tasks[k].state = "aborting"
  /\ Invoke(r, k, "Aborted")
  /\ UNCHANGED <<closing_, now>>

\* The function returns.
TaskReturns(r) ==
  /\ running_task[r] # 0
  /\ scheduled_tasks' = [scheduled_tasks EXCEPT ![running_task[r]].state = "done"]
  /\ running_task' = [running_task EXCEPT ![r] = 0]
  /\ UNCHANGED <<closing_, now>>

\* Tasks whose delay has not elapsed, and tasks whose timer is due but has
\* not been served.
Waiting == {k \in Tasks : scheduled_tasks[k].state = "scheduled"
                            /\ scheduled_tasks[k].due > now}
Due == {k \in Tasks : scheduled_tasks[k].state = "scheduled"
                        /\ scheduled_tasks[k].due <= now}

\* Messenger::Shutdown: the timers of the waiting tasks are stopped; a timer
\* that is due may be served before the reactor sees the shutdown, or not.
Shutdown(served) ==
  /\ ~closing_
  /\ served \subseteq Due
  /\ closing_' = TRUE
  /\ scheduled_tasks' =
       [k \in Tasks |->
          IF k \in Waiting \/ k \in Due \ served
          THEN [scheduled_tasks[k] EXCEPT !.state = "aborting"]
          ELSE scheduled_tasks[k]]
  /\ UNCHANGED <<running_task, now>>

\* Time reaches the next timer.
TimeReachesTimer ==
  /\ Waiting # {}
  /\ now' = CHOOSE x \in {scheduled_tasks[k].due : k \in Waiting} :
              \A k \in Waiting : x <= scheduled_tasks[k].due
  /\ UNCHANGED reactorVars

ReactorNext ==
  /\ \/ \E k \in Tasks, r \in Reactors, d \in TaskDelays : ScheduleOnReactor(k, r, d)
     \/ \E r, q \in Reactors, k \in Tasks, d \in TaskDelays : ScheduleFromCallback(r, k, q, d)
     \/ \E r \in Reactors, k \in Tasks : TimerFires(r, k)
     \/ \E r \in Reactors, k \in Tasks : AbortTask(r, k)
     \/ \E r \in Reactors : TaskReturns(r)
     \/ \E served \in SUBSET Tasks : Shutdown(served)
     \/ TimeReachesTimer
  /\ UNCHANGED <<setupVars, ndebug, memVars, metricVars, pending_operations_, pc, driver,
                 driver_mem_footprint, st, driver_state, crashed, round_trip, destroyed,
                 lockVars, drain_pc, timeout, check_ok, start_time, operations,
                 wait_time, num_complaints, wake_time, drain_status, polls, sleeps,
                 logVars>>

\* Every reactor thread keeps running its loop, and time goes on: while a
\* timer can be served, a task aborted or a function return, one of them does.
ReactorProgress ==
  \/ \E r \in Reactors, k \in Tasks : TimerFires(r, k) \/ AbortTask(r, k)
  \/ \E r \in Reactors : TaskReturns(r)
  \/ TimeReachesTimer

ReactorFairness == WF_vars(ReactorProgress /\ ReactorNext)

ReactorSpec == ReactorInit /\ [][ReactorNext]_vars /\ ReactorFairness

(* ---- properties ---- *)

\* Thread t moves from one position of its call to another in this step.
Stepped(t, from, to) == pc[t] = from /\ pc'[t] = to

\* Drivers whose Add returned OK, and drivers whose Release has returned.
AddSucceeded == {d \in Drivers : driver_state[d] \in {"pending", "releasing", "released"}}
ReleasePerformed == {d \in Drivers : driver_state[d] = "released"}
AddRejected == {d \in Drivers : driver_state[d] = "rejected"}

\* Memory tracking was started before the first Add and not restarted since.
TrackingFromStart == mem_tracker_ # NULL /\ ~tracking_late

\* The gauge value v2 is v1 plus one, in the gauge's unsigned arithmetic.
OneMore(v1, v2) == (v2 - v1) % GaugeModulus = 1

\* C1: once the calls have returned, the number of pending operations is the
\* number of Adds that returned OK minus the number of Releases performed, and
\* it is never negative; an entry is present only for such a driver.
C1_PendingCount ==
  /\ GetNumPendingForTests >= 0
  /\ DOMAIN pending_operations_ \subseteq AddSucceeded \ ReleasePerformed
  /\ Quiescent =>
       GetNumPendingForTests = Cardinality(AddSucceeded) - Cardinality(ReleasePerformed)

C1_Witness ==
  /\ Quiescent
  /\ ReleasePerformed # {}
  /\ GetNumPendingForTests = 1
  /\ Cardinality(AddSucceeded) = 2

\* C2: with memory tracking started before the first Add, the footprints
\* recorded in the pending map never exceed the tracker's consumption.
C2_PendingWithinReserved ==
  TrackingFromStart => PendingFootprint <= mem_tracker_.consumption

C2_Witness ==
  /\ TrackingFromStart
  /\ GetNumPendingForTests = 2
  /\ \E t \in Threads : pc[t] = "release_erase"

\* C3: every pending entry has its bytes reserved in the tracker, and Release
\* gives back exactly the footprint the entry recorded, which is the amount
\* Add reserved.
C3_EveryEntryReserved ==
  /\ [](mem_tracker_ # NULL => PendingFootprint <= mem_tracker_.consumption)
  /\ [][\A t \in Threads :
          /\ Stepped(t, "add_insert", "idle") =>
               pending_operations_'[driver[t]].memory_footprint = driver_mem_footprint[t]
          /\ Stepped(t, "release_erase", "release_memory") =>
               st'[t] = pending_operations_[driver[t]]
          /\ (Stepped(t, "release_memory", "idle") /\ mem_tracker_ # NULL) =>
               mem_tracker_'.consumption =
                 mem_tracker_.consumption - st[t].memory_footprint]_vars

\* C4: on a tracker with limit L whose parent has room, an Add of at most L
\* bytes on an unconsumed tracker reserves them and goes on; an Add that would
\* take the consumption above L is rejected, returns ServiceUnavailable and
\* leaves the consumption as it was.
C4_AdmitAgainstLimit ==
  [][\A t \in Threads :
       /\ (mem_tracker_ # NULL /\ pc[t] = "idle"
             /\ pc'[t] \in {"add_increment", "add_rejected"}) =>
            LET bytes == driver_mem_footprint'[t] IN
            /\ (mem_tracker_.consumption = 0 /\ bytes <= mem_tracker_.limit
                  /\ HasRoom(parent_mem_tracker, bytes)) =>
                 /\ pc'[t] = "add_increment"
                 /\ mem_tracker_'.consumption = bytes
            /\ (mem_tracker_.consumption + bytes > mem_tracker_.limit) =>
                 /\ pc'[t] = "add_rejected"
                 /\ mem_tracker_' = mem_tracker_
                 /\ parent_mem_tracker' = parent_mem_tracker
       /\ (pc[t] = "add_rejected" /\ pc'[t] # pc[t]) =>
            /\ driver_state'[driver[t]] = "rejected"
            /\ mem_tracker_' = mem_tracker_]_vars

C4_Witness ==
  \E t1, t2 \in Threads :
    /\ mem_tracker_ # NULL
    /\ pc[t1] = "add_increment"
    /\ mem_tracker_.consumption = driver_mem_footprint[t1]
    /\ driver_mem_footprint[t1] = mem_tracker_.limit
    /\ pc[t2] = "add_rejected"
    /\ mem_tracker_.consumption + driver_mem_footprint[t2] > mem_tracker_.limit

\* C5: the steps of a rejected Add leave the pending map, the aggregate gauge,
\* the per-type gauges and both trackers unchanged.
C5_RejectionFrame ==
  [][\A t \in Threads :
       ((pc'[t] = "add_rejected" \/ pc[t] = "add_rejected") /\ pc'[t] # pc[t]) =>
         /\ pending_operations_' = pending_operations_
         /\ all_operations_inflight' = all_operations_inflight
         /\ operations_inflight' = operations_inflight
         /\ mem_tracker_' = mem_tracker_
         /\ parent_mem_tracker' = parent_mem_tracker]_vars

C5_Witness ==
  /\ AddRejected # {}
  /\ metrics_
  /\ operation_memory_pressure_rejections > 0
  /\ all_operations_inflight > 0
  /\ GetNumPendingForTests > 0

\* C6: an Add that returned OK and the Release of the same driver, with no
\* other step in between, leave both trackers, the pending map and all the
\* gauges as they were before the Add.
C6_RoundTrip ==
  (round_trip # NULL /\ driver_state[round_trip.driver] = "released") =>
    /\ mem_tracker_ = round_trip.mem_tracker
    /\ parent_mem_tracker = round_trip.parent
    /\ pending_operations_ = round_trip.pending
    /\ all_operations_inflight = round_trip.all
    /\ operations_inflight = round_trip.by_type

C6_Witness ==
  /\ round_trip # NULL
  /\ driver_state[round_trip.driver] = "released"
  /\ mem_tracker_ # NULL
  /\ metrics_
  /\ DOMAIN round_trip.pending # {}
  /\ round_trip.all > 0

\* C7: when every driver has gone through Add and Release (none was
\* rejected) and the metrics were not attached in the middle of the traffic,
\* no operation is pending and the aggregate gauge is 0.
C7_AllCyclesDone ==
  ((\A d \in Drivers : driver_state[d] = "released") /\ ~instrumented_late) =>
    /\ GetNumPendingForTests = 0
    /\ all_operations_inflight = 0

C7_Witness ==
  /\ \A d \in Drivers : driver_state[d] = "released"
  /\ metrics_
  /\ ~instrumented_late
  /\ TrackingFromStart

\* The tracker and the metrics were set up before the first Add and the limit
\* is below every footprint.
SmallBudget ==
  /\ TrackingFromStart
  /\ metrics_
  /\ ~instrumented_late
  /\ \A b \in Footprints : mem_tracker_.limit < b

\* C8: with such a budget every Add is rejected, the rejection counter is the
\* number of Adds that have returned, and nothing is ever pending.
C8_AllRejected ==
  SmallBudget =>
    /\ AddSucceeded = {}
    /\ \A t \in Threads : pc[t] \in {"idle", "add_rejected"}
    /\ operation_memory_pressure_rejections = Cardinality(AddRejected)
    /\ Quiescent => Cardinality(AddRejected) = Cardinality({d \in Drivers : driver_state[d] # "new"})
    /\ pending_operations_ = <<>>

C8_Witness ==
  /\ SmallBudget
  /\ operation_memory_pressure_rejections >= 2

\* C9: with metrics attached, an Add that passes admission adds one to the
\* aggregate gauge and one to the gauge of its own type, a Release takes one
\* from each, and no step of either call touches the gauge of another type.
C9_GaugeIsolation ==
  [][\A t \in Threads :
       LET OthersSame == \A o \in OperationTypes \ {operation_type(driver[t])} :
                           operations_inflight'[o] = operations_inflight[o]
       IN
       (pc'[t] # pc[t] /\ ~crashed') =>
         /\ metrics_ => ~Stepped(t, "add_increment", "add_insert")
         /\ metrics_ => ~Stepped(t, "idle", "release_erase")
         /\ CASE Stepped(t, "add_increment", "add_increment_type") ->
                   /\ OneMore(all_operations_inflight, all_operations_inflight')
                   /\ operations_inflight' = operations_inflight
              [] Stepped(t, "add_increment_type", "add_insert") ->
                   /\ all_operations_inflight' = all_operations_inflight
                   /\ OneMore(operations_inflight[operation_type(driver[t])],
                              operations_inflight'[operation_type(driver[t])])
                   /\ OthersSame
              [] Stepped(t, "idle", "release_decrement_type") ->
                   /\ OneMore(all_operations_inflight', all_operations_inflight)
                   /\ operations_inflight' = operations_inflight
              [] Stepped(t, "release_decrement_type", "release_erase") ->
                   /\ all_operations_inflight' = all_operations_inflight
                   /\ OneMore(operations_inflight'[operation_type(driver[t])],
                              operations_inflight[operation_type(driver[t])])
                   /\ OthersSame
              [] OTHER ->
                   /\ all_operations_inflight' = all_operations_inflight
                   /\ operations_inflight' = operations_inflight]_vars

C9_Witness ==
  /\ metrics_
  /\ ~instrumented_late
  /\ ReleasePerformed # {}
  /\ operations_inflight["SNAPSHOT_TXN"] = 1
  /\ operations_inflight["WRITE_TXN"] = 0
  /\ all_operations_inflight = 1

\* C10: no Release decrements a gauge whose value is zero, so that the gauges
\* never wrap around.
C10_NoDecrementAtZero ==
  [][\A t \in Threads :
       /\ Stepped(t, "idle", "release_decrement_type") => all_operations_inflight > 0
       /\ Stepped(t, "release_decrement_type", "release_erase") =>
            operations_inflight[operation_type(driver[t])] > 0]_vars

(* ---- WaitForAllToFinish ---- *)

\* Caller w is inside WaitForAllToFinish.
Draining(w) == drain_pc[w] \in {"poll", "check", "sleep"}

\* Caller w takes this step out of the check of the copy it made.
Decides(w) == drain_pc[w] = "check" /\ drain_pc'[w] # "check"

\* C11: a poll that finds no pending operation copies an empty set, and a call
\* whose first poll did so returns OK from there, whatever its timeout and
\* however much time has passed, without having slept.
C11_EmptyDrainReturnsAtOnce ==
  [][\A w \in Drainers :
       /\ (drain_pc[w] = "poll" /\ drain_pc'[w] = "check" /\ pending_operations_ = <<>>) =>
            operations'[w] = {} /\ polls'[w] = 1
       /\ (Decides(w) /\ polls[w] = 1 /\ operations[w] = {}) =>
            /\ drain_status'[w] = StatusOK
            /\ drain_pc'[w] = "done"
            /\ sleeps[w] = 0
            /\ wait_time[w] = kInitialWaitTime
            /\ ~crashed']_vars

\* The first poll of a call with a zero timeout has found nothing pending,
\* when the timeout had already passed.
C11_Witness ==
  \E w \in Drainers :
    /\ drain_pc[w] = "check"
    /\ polls[w] = 1
    /\ operations[w] = {}
    /\ timeout[w] = FromMicroseconds(0)
    /\ MoreThan(Elapsed(w), timeout[w])

\* Caller w returns from WaitForAllToFinish in this step.
Returns(w) == drain_pc[w] # "done" /\ drain_pc'[w] = "done"

\* C12: when the operations are never released, a call with a finite timeout
\* that begins with an operation pending returns TimedOut in the end, and the
\* number of pending operations in a TimedOut status is the size of the copy
\* made by the poll that found the time to be up.
C12_TimesOut ==
  /\ [][\A w \in Drainers :
          (Returns(w) /\ drain_status'[w].code = "TimedOut") =>
            /\ ~timeout[w].max
            /\ operations[w] # {}
            /\ drain_status'[w].pending = Cardinality(operations[w])]_vars
  /\ \A w \in Drainers :
       (drain_pc[w] = "poll" /\ ~timeout[w].max /\ GetNumPendingForTests = 1) ~>
         drain_status[w] = TimedOut(1)

\* A call has returned TimedOut with one operation pending, which has not
\* been released since.
C12_Witness ==
  \E w \in Drainers :
    /\ drain_status[w] = TimedOut(1)
    /\ GetNumPendingForTests = 1
    /\ ReleasePerformed = {}
    /\ \A t \in Threads : pc[t] \notin {"release_erase", "release_memory"}

\* C13: a call of WaitForAllToFinish() never ends with TimedOut: whenever its
\* copy of the pending operations is not empty it goes to sleep and polls
\* again, and it returns, with OK, only from a poll whose copy was empty.
C13_WaitsIndefinitely ==
  [][\A w \in Drainers :
       /\ (check_ok[w] /\ Decides(w)) =>
            IF operations[w] = {}
            THEN drain_status'[w] = StatusOK /\ drain_pc'[w] = "done"
            ELSE drain_status'[w] = NULL /\ drain_pc'[w] = "sleep" /\ ~crashed'
       /\ (check_ok[w] /\ drain_pc[w] = "sleep" /\ drain_pc'[w] # "sleep") =>
            drain_pc'[w] = "check" /\ polls'[w] = polls[w] + 1
       /\ (check_ok[w] /\ Returns(w)) =>
            drain_pc[w] = "check" /\ operations[w] = {}]_vars

\* A call of WaitForAllToFinish() that has waited for longer than any of the
\* finite timeouts has polled again and found nothing pending.
C13_Witness ==
  \E w \in Drainers :
    /\ check_ok[w]
    /\ drain_pc[w] = "check"
    /\ polls[w] = 2
    /\ operations[w] = {}
    /\ \A delta \in Timeouts : MoreThan(Elapsed(w), delta)

\* C14: the steps of WaitForAllToFinish change nothing of the tracker; an Add
\* that begins while callers are waiting is rejected exactly when TryConsume
\* refuses its bytes, is never held up by them, and every poll copies the
\* operations that are pending at that moment, those added since the call
\* began included.
C14_DrainDoesNotCloseAdmission ==
  /\ [](\A t \in Threads :
          /\ pc[t] \in {"add_rejected", "add_increment", "add_insert"} =>
               ENABLED (AddReject(t) \/ IncrementAll(t) \/ AddInsert(t))
          /\ \A d \in Drivers :
               (TakesCall(t) /\ driver_state[d] = "new"
                  /\ \A e \in Drivers : e < d => driver_state[e] # "new") =>
                 ENABLED AddTryConsume(t, d, kBytesPerMb))
  /\ [][/\ drainVars' # drainVars => trackerVars' = trackerVars
        /\ \A t \in Threads :
             (pc[t] = "idle" /\ pc'[t] \in {"add_rejected", "add_increment"}) =>
               (pc'[t] = "add_rejected" <=>
                  ~TryConsumeSucceeds(mem_tracker_, parent_mem_tracker,
                                      driver_mem_footprint'[t]))
        /\ \A w \in Drainers :
             polls'[w] = polls[w] + 1 => operations'[w] = DOMAIN pending_operations_]_vars

\* The first poll of a call found driver 1 pending; while the caller sleeps,
\* driver 2 has been admitted, which the limit of one operation allows only
\* after driver 1 was erased: its Add began and succeeded during the call.
C14_Witness ==
  \E w \in Drainers :
    /\ drain_pc[w] = "sleep"
    /\ polls[w] = 1
    /\ operations[w] = {1}
    /\ DOMAIN pending_operations_ = {2}

\* C15: WaitForAllToFinish returns OK only from the iteration whose copy of
\* the pending operations was empty, and that copy was the whole content of
\* the map when it was taken; an empty copy always ends the call with OK,
\* whatever has been added since.
C15_SuccessMeansLastCopyEmpty ==
  [][\A w \in Drainers :
       /\ (Returns(w) /\ drain_status'[w] = StatusOK) =>
            (drain_pc[w] = "check" /\ operations[w] = {})
       /\ (Decides(w) /\ operations[w] = {}) =>
            (drain_pc'[w] = "done" /\ drain_status'[w] = StatusOK)
       /\ (drain_pc[w] # "check" /\ drain_pc'[w] = "check") =>
            (operations'[w] = {} <=> pending_operations_ = << >>)]_vars

\* A call is about to return OK from an empty copy while an operation added
\* after that copy was taken is pending.
C15_Witness ==
  \E w \in Drainers :
    /\ drain_pc[w] = "check"
    /\ operations[w] = {}
    /\ pending_operations_ # << >>

\* Thread t is inside an Add of a driver that is in pending_operations_.
AddingAgain(t) ==
  /\ pc[t] \in {"add_rejected", "add_increment", "add_increment_type", "add_insert"}
  /\ driver_state[driver[t]] = "adding_again"

ReleasingUnknown(t) ==
  /\ pc[t] \in {"release_decrement", "release_decrement_type", "release_erase",
                "release_memory"}
  /\ driver_state[driver[t]] \in {"never_added", "rejected", "released"}

\* C17: a Release of a driver that was never passed to Add, whose Add was
\* rejected, or that was released before, finds the driver absent and aborts there at the latest; it never
\* returns, never reaches mem_tracker_->Release, and its steps leave the
\* trackers' consumption as it was.
C17_UnknownReleaseIsFatal ==
  /\ [](\A t \in Threads :
          ReleasingUnknown(t) =>
            /\ driver[t] \notin DOMAIN pending_operations_
            /\ pc[t] # "release_memory"
            /\ (pc[t] = "release_erase" /\ Alive) => ENABLED (ReleaseErase(t) /\ crashed'))
  /\ [][\A t \in Threads :
          /\ ReleasingUnknown(t) =>
               /\ pc'[t] \notin {"idle", "release_memory"}
               /\ pc[t] = "release_erase" => pc'[t] = "release_erase"
               /\ pc'[t] # pc[t] => memVars' = memVars
          /\ \A d \in Drivers :
               (pc[t] = "idle" /\ driver'[t] = d
                  /\ driver_state'[d] \in {"never_added", "rejected", "released"}) =>
                 (ReleasingUnknown(t)' /\ memVars' = memVars)]_vars

\* A second Release of a released driver has aborted at the map, with memory
\* tracking on and no other call in progress.
C17_Witness ==
  \E t \in Threads :
    /\ crashed
    /\ pc[t] = "release_erase"
    /\ driver_state[driver[t]] = "released"
    /\ mem_tracker_ # NULL
    /\ \A u \in Threads \ {t} : pc[u] = "idle"

\* C18: the destructor, run when no call is in progress, aborts if an
\* operation is pending and completes otherwise; it completes exactly when
\* every driver whose Add returned OK has been released.
C18_DestructorChecksEmpty ==
  /\ [](destroyed => (pending_operations_ = << >> /\ AddSucceeded = ReleasePerformed))
  /\ [][(Quiescent /\ Quiescent' /\ (crashed' # crashed \/ destroyed' # destroyed)) =>
          /\ destroyed' <=> pending_operations_ = << >>
          /\ destroyed' <=> AddSucceeded = ReleasePerformed
          /\ crashed' <=> ~destroyed']_vars

\* The destructor has aborted: no call is in progress, one operation was
\* released and another is still pending.
C18_Witness ==
  /\ crashed
  /\ Quiescent
  /\ ReleasePerformed # {}
  /\ pending_operations_ # << >>

\* C19: with the flag at -1 no tracker is ever created, and while there is no
\* tracker (the flag at -1, or StartMemoryTracking not called) no Add has been
\* rejected, no step of Add or Release changes what the parent tracker holds
\* for the operations, and every Add goes on to IncrementCounters.
C19_NoTrackerNoAccounting ==
  /\ [](tablet_operation_memory_limit_mb = -1 => mem_tracker_ = NULL)
  /\ [](mem_tracker_ = NULL =>
          /\ AddRejected = {}
          /\ operation_memory_pressure_rejections = 0
          /\ parent_mem_tracker.consumption = other_consumption
          /\ \A t \in Threads : pc[t] # "add_rejected")
  /\ [][(mem_tracker_ = NULL /\ mem_tracker_' = NULL) =>
          \A t \in Threads :
            /\ (pc[t] = "idle" /\ pc'[t] # "idle") =>
                 (pc'[t] \in {"add_increment", "release_erase", "release_decrement",
                              "release_decrement_type"}
                    /\ memVars' = memVars)
            /\ (pc[t] = "release_memory" /\ pc'[t] = "idle") => memVars' = memVars]_vars

\* With the flag at -1, every driver is pending, their footprints add up to
\* more than the parent tracker's limit, and the parent holds nothing.
C19_Witness ==
  /\ tablet_operation_memory_limit_mb = -1
  /\ PendingFootprint > parent_mem_tracker.limit
  /\ parent_mem_tracker.consumption = 0
  /\ GetNumPendingForTests = MaxOps

\* Thread t is at a step of IncrementCounters or DecrementCounters.
AtCounterStep(t) ==
  \/ pc[t] \in {"add_increment", "add_increment_type", "release_decrement_type"}
  \/ pc[t] = "idle" /\ pc'[t] \in {"release_erase", "release_decrement",
                                   "release_decrement_type"}

\* Everything Add and Release work on besides the counters.
admissionVars == <<memVars, pending_operations_, st, driver_mem_footprint, crashed>>

\* C20: with metrics attached before the first Add or not at all, the steps
\* of IncrementCounters and DecrementCounters only move the call on to the
\* emplace or the erase, changing neither the map nor the trackers nor
\* aborting; an Add is rejected exactly when TryConsume refuses its bytes,
\* metrics or not; at rest the map holds exactly the drivers added and not yet
\* released; and without metrics no step changes a gauge or the counter.
C20_MetricsDoNotAffectAdmission ==
  /\ []((~instrumented_late /\ Quiescent) =>
          DOMAIN pending_operations_ = AddSucceeded \ ReleasePerformed)
  /\ [][/\ ~metrics_ => metricVars' = metricVars
        /\ \A t \in Threads :
             /\ (~instrumented_late /\ pc'[t] # pc[t] /\ AtCounterStep(t)) =>
                  /\ admissionVars' = admissionVars
                  /\ pc'[t] \in {"add_increment_type", "add_insert",
                                 "release_decrement_type", "release_erase"}
                  /\ ~metrics_ => pc'[t] \in {"add_insert", "release_erase"}
             /\ (pc[t] = "idle" /\ pc'[t] \in {"add_rejected", "add_increment"}) =>
                  (pc'[t] = "add_increment" <=>
                     (mem_tracker_ = NULL
                        \/ TryConsumeSucceeds(mem_tracker_, parent_mem_tracker,
                                              driver_mem_footprint'[t])))]_vars

\* With metrics attached from the start, one Add was rejected and one
\* operation is pending and counted, no call being in progress.
C20_Witness ==
  /\ metrics_
  /\ ~instrumented_late
  /\ Quiescent
  /\ AddRejected # {}
  /\ GetNumPendingForTests = 1
  /\ all_operations_inflight = 1

\* C21: an Add is rejected when its bytes fit mem_tracker_ but not the parent
\* tracker, which other subsystems consume from as well, and it is rejected
\* when they fit the parent but not mem_tracker_; from the refused TryConsume
\* to the return of the call neither tracker's consumption changes.
C21_HierarchicalAdmission ==
  [][\A t \in Threads :
       /\ (mem_tracker_ # NULL /\ pc[t] = "idle"
             /\ pc'[t] \in {"add_increment", "add_rejected"}) =>
            LET bytes == driver_mem_footprint'[t] IN
            /\ (HasRoom(mem_tracker_, bytes) /\ ~HasRoom(parent_mem_tracker, bytes)) =>
                 (pc'[t] = "add_rejected" /\ memVars' = memVars)
            /\ (~HasRoom(mem_tracker_, bytes) /\ HasRoom(parent_mem_tracker, bytes)) =>
                 (pc'[t] = "add_rejected" /\ memVars' = memVars)
            /\ (HasRoom(mem_tracker_, bytes) /\ HasRoom(parent_mem_tracker, bytes)) =>
                 /\ pc'[t] = "add_increment"
                 /\ mem_tracker_'.consumption = mem_tracker_.consumption + bytes
                 /\ parent_mem_tracker'.consumption = parent_mem_tracker.consumption + bytes
       /\ (pc[t] = "add_rejected" /\ pc'[t] = "idle") => memVars' = memVars]_vars

\* An Add is being rejected, no other call in progress: its bytes fit the
\* unconsumed mem_tracker_, the parent has room for them by its own children
\* but not with what another subsystem holds.
C21_Witness ==
  \E t \in Threads :
    /\ pc[t] = "add_rejected"
    /\ \A u \in Threads \ {t} : pc[u] = "idle"
    /\ mem_tracker_ # NULL
    /\ mem_tracker_.consumption = 0
    /\ HasRoom(mem_tracker_, driver_mem_footprint[t])
    /\ other_consumption > 0
    /\ parent_mem_tracker.consumption = other_consumption
    /\ ~HasRoom(parent_mem_tracker, driver_mem_footprint[t])

\* C22: mem_tracker_ is consumed from by this tracker alone, so its
\* consumption is what Add has consumed from it less what Release has given
\* back to it; the claim is that this never drops below zero, and that no
\* Release gives back more than the tracker holds.
C22_NeverReleasesMoreThanConsumed ==
  /\ [](mem_tracker_ # NULL => mem_tracker_.consumption >= 0)
  /\ [][\A t \in Threads :
          (Stepped(t, "release_memory", "idle") /\ mem_tracker_ # NULL) =>
            st[t].memory_footprint <= mem_tracker_.consumption]_vars

\* C23: a call of StartInstrumentation on a tracker that has metrics_ set
\* changes no gauge, not the counter and nothing else of the tracker, so that
\* the calls that follow it find the state they would have found without it.
C23_InstrumentationIdempotent ==
  [][(metrics_ /\ (StartInstrumentation \/ StartInstrumentationAgain)) =>
       /\ metrics_'
       /\ metricVars' = metricVars
       /\ UNCHANGED <<tablet_operation_memory_limit_mb, ndebug, memVars,
                      pending_operations_, pc, driver, driver_mem_footprint, st,
                      driver_state, crashed, tracking_late, instrumented_late,
                      destroyed, drainVars>>]_vars

\* StartInstrumentation was called again while an operation was pending and
\* counted; the operation is still counted, and a rejection still shows.
C23_Witness ==
  /\ instrumented_again
  /\ ~instrumented_late
  /\ Quiescent
  /\ GetNumPendingForTests = 1
  /\ all_operations_inflight = 1
  /\ operation_memory_pressure_rejections = 1

TypeOK ==
  /\ Cardinality(OperationTypes) = kOperationTypes
  /\ pending_operations_ \in [DOMAIN pending_operations_ -> [memory_footprint : Footprints]]
  /\ DOMAIN pending_operations_ \subseteq Drivers
  /\ all_operations_inflight \in 0..(GaugeModulus - 1)

\* The function of task k has been called.
Invoked(k) == scheduled_tasks[k].state \in {"running", "done"}

\* C24: a task whose delay has not elapsed when the messenger shuts down is
\* still invoked, with Aborted and never with OK; a task whose delay elapses
\* without a shutdown is invoked with OK.  Shutdown leaves no waiting task
\* waiting, a task is called with OK only once its delay has elapsed and with
\* anything else only after a shutdown, a scheduled task stops waiting only by
\* being called or by the shutdown that aborts it, and in the end no task is
\* left waiting to be called.
C24_DelayedTaskOkOrAborted ==
  /\ [][closing_' /\ ~closing_ =>
          \A k \in Waiting : scheduled_tasks'[k].state = "aborting"]_vars
  /\ [][\A k \in Tasks :
          scheduled_tasks[k].state = "aborting" /\ scheduled_tasks'[k] # scheduled_tasks[k]
            => Invoked(k)' /\ scheduled_tasks'[k].status = "Aborted"]_vars
  /\ [](\A k \in Tasks :
          /\ Invoked(k) => scheduled_tasks[k].status \in {"OK", "Aborted"}
          /\ scheduled_tasks[k].status = "OK" => now >= scheduled_tasks[k].due
          /\ Invoked(k) /\ ~closing_ => scheduled_tasks[k].status = "OK")
  /\ [][\A k \in Tasks :
          scheduled_tasks[k].state = "scheduled" /\ scheduled_tasks'[k] # scheduled_tasks[k]
            => \/ Invoked(k)' /\ scheduled_tasks'[k].status = "OK"
               \/ closing_' /\ scheduled_tasks'[k].state = "aborting"]_vars
  /\ <>[](\A k \in Tasks : scheduled_tasks[k].state \notin {"scheduled", "aborting"})

\* One task, scheduled with a delay, was called with OK when the delay had
\* elapsed; another, scheduled with a delay that has still not elapsed, was
\* called with Aborted after the shutdown.
C24_Witness ==
  /\ closing_
  /\ \E j, k \in Tasks :
       /\ scheduled_tasks[j].state = "done"
       /\ scheduled_tasks[j].status = "OK"
       /\ scheduled_tasks[j].due > 0
       /\ scheduled_tasks[k].state = "done"
       /\ scheduled_tasks[k].status = "Aborted"
       /\ scheduled_tasks[k].due > now

\* C25: a task scheduled from inside a running reactor callback is put on,
\* and called by, the thread of the reactor that ran the callback, though the
\* messenger has several reactors.
C25_ReschedulesOnSameReactorThread ==
  \A k \in Tasks :
    scheduled_tasks[k].from # 0 =>
      /\ scheduled_tasks[k].reactor = scheduled_tasks[k].from
      /\ scheduled_tasks[k].thread \in {0, scheduled_tasks[k].from}

\* A callback on a reactor that is not the first scheduled a task with no
\* delay, and that task has run, with OK, on the same reactor's thread.
C25_Witness ==
  /\ Cardinality(Reactors) > 1
  /\ \E k \in Tasks :
       /\ scheduled_tasks[k].from > 1
       /\ scheduled_tasks[k].state = "done"
       /\ scheduled_tasks[k].status = "OK"
       /\ scheduled_tasks[k].thread = scheduled_tasks[k].from

\* Threads whose call is at one of the positions in at, all of them or those
\* whose operation is of type ty.
ThreadsAt(at) == {t \in Threads : pc[t] \in at}
ThreadsOfTypeAt(ty, at) == {t \in ThreadsAt(at) : operation_type(driver[t]) = ty}
PendingOfType(ty) == {d \in DOMAIN pending_operations_ : operation_type(d) = ty}

\* C26: Release decrements the aggregate gauge and the gauge of the
\* operation's type before it removes the entry, so that no operation that
\* Release has removed is still counted.  The step that removes an entry
\* leaves the gauges alone and so does the rest of that Release, and on a
\* tracker whose gauges saw every Add, each gauge counts the entries present,
\* plus the Adds past their increment and before their insertion, minus the
\* Releases past their decrement and before their removal.
C26_UncountedBeforeRemoved ==
  /\ [][\A t \in Threads :
          (pc[t] \in {"release_erase", "release_memory"} /\ pc'[t] # pc[t])
             => UNCHANGED metricVars]_vars
  /\ [][\A t \in Threads :
          (metrics_ /\ pc'[t] = "release_erase" /\ pc[t] # "release_erase") =>
             /\ pc[t] = "release_decrement_type"
             /\ driver[t] \in DOMAIN pending_operations_'
             /\ operations_inflight'[operation_type(driver[t])] =
                  GaugeDecrement(operations_inflight[operation_type(driver[t])])]_vars
  /\ []((metrics_ /\ ~instrumented_late) =>
          /\ all_operations_inflight =
               GetNumPendingForTests
                 + Cardinality(ThreadsAt({"add_increment_type", "add_insert"}))
                 - Cardinality(ThreadsAt({"release_decrement_type", "release_erase"}))
          /\ \A ty \in OperationTypes :
               operations_inflight[ty] =
                 Cardinality(PendingOfType(ty))
                   + Cardinality(ThreadsOfTypeAt(ty, {"add_insert"}))
                   - Cardinality(ThreadsOfTypeAt(ty, {"release_erase"})))

\* A Release has removed its operation and has yet to give the memory back;
\* another operation is still pending and is the only one the gauges count.
C26_Witness ==
  /\ metrics_ /\ ~instrumented_late
  /\ \E t \in Threads :
       /\ pc[t] = "release_memory"
       /\ driver[t] \notin DOMAIN pending_operations_
       /\ GetNumPendingForTests = 1
       /\ operations_inflight[operation_type(driver[t])] = 0
       /\ all_operations_inflight = 1

\* Bytes reserved by Adds that have yet to insert their entry, and bytes of
\* entries that a Release has erased and has yet to give back.
ReservedByAdds ==
  SumFootprints([t \in Threads |-> State(driver_mem_footprint[t])],
                ThreadsAt({"add_increment", "add_increment_type", "add_insert"}))
HeldByReleases == SumFootprints(st, ThreadsAt({"release_memory"}))

\* C27: Release gives memory back only after it has removed the entry, and
\* every reservation the tracker holds in mem_tracker_ belongs to an entry
\* that is in pending_operations_.
C27_EveryReservationHasEntry ==
  /\ [][\A t \in Threads :
          Stepped(t, "release_memory", "idle") =>
            driver[t] \notin DOMAIN pending_operations_]_vars
  /\ [](mem_tracker_ # NULL => mem_tracker_.consumption <= PendingFootprint)

\* C27, amended: Release gives memory back only after it has removed the
\* entry, and every reservation the tracker holds in mem_tracker_ belongs to
\* an entry that is in pending_operations_, to an Add that has reserved and
\* not yet inserted, or to a Release that has erased and not yet given back;
\* a tracker that no call is inside holds no reservation without an entry.
C27_ReservationHasEntryOrCall ==
  /\ [][\A t \in Threads :
          Stepped(t, "release_memory", "idle") =>
            driver[t] \notin DOMAIN pending_operations_]_vars
  /\ [][\A t \in Threads :
          (pc'[t] # pc[t] /\ pc'[t] \in {"release_decrement", "release_decrement_type",
                                         "release_erase", "release_memory"})
             => UNCHANGED memVars]_vars
  /\ [](mem_tracker_ # NULL =>
          /\ mem_tracker_.consumption <= PendingFootprint + ReservedByAdds + HeldByReleases
          /\ Quiescent => mem_tracker_.consumption <= PendingFootprint)

\* A Release has erased its entry and still holds the entry's bytes in the
\* tracker, which was attached before the first Add: the map is empty and the
\* consumption is the footprint the Release is about to give back.
C27_Witness ==
  /\ TrackingFromStart
  /\ pending_operations_ = <<>>
  /\ \E t \in Threads :
       /\ pc[t] = "release_memory"
       /\ st[t].memory_footprint > 0
       /\ mem_tracker_.consumption = st[t].memory_footprint

C29_AtomicSnapshot ==
  /\ [][\A w \in Drainers :
          drain_pc[w] = "copying" => pending_operations_' = pending_operations_]_vars
  /\ [][\A w \in Drainers :
          (drain_pc[w] = "copying" /\ drain_pc'[w] = "idle") =>
            /\ operations'[w] = DOMAIN pending_operations_
            /\ Len(result[w]) = Cardinality(DOMAIN pending_operations_)]_vars
  /\ [](\A w \in Drainers :
          drain_pc[w] = "copying" =>
            /\ Range(result[w]) \subseteq DOMAIN pending_operations_
            /\ Len(result[w]) = Cardinality(Range(result[w])))

\* A call has returned both operations that were pending; since then one of
\* them has been erased by its Release, and the caller's copy still names it.
C29_Witness ==
  \E w \in Drainers :
    /\ drain_pc[w] = "idle"
    /\ operations[w] = {1, 2}
    /\ Len(result[w]) = 2
    /\ DOMAIN pending_operations_ = {2}

\* Caller w enters SleepFor, for wake_time'[w] - now microseconds; the
\* SleepFor before it, if any, lasted wait_time[w] microseconds.
EntersSleep(w) == sleeps'[w] = sleeps[w] + 1

\* C30: the first SleepFor of a call of WaitForAllToFinish lasts 250
\* microseconds, each following one lasts 5/4 of the one before in integer
\* arithmetic, none lasts more than 1,000,000 microseconds, and after one of
\* 1,000,000 microseconds all last exactly that.
C30_BackoffFrom250 ==
  [][\A w \in Drainers :
       EntersSleep(w) =>
         /\ wake_time'[w] - now =
              IF sleeps[w] = 0 THEN 250
              ELSE Min((wait_time[w] * 5) \div 4, 1000000)
         /\ wake_time'[w] - now <= 1000000
         /\ (sleeps[w] > 0 /\ wait_time[w] = 1000000) => wake_time'[w] - now = 1000000]_vars

\* C34: on a tracker whose memory tracking was started before the first Add,
\* the consumption of mem_tracker_ is, in every state, the sum of the
\* footprints recorded in pending_operations_, of the footprints of the Adds
\* that have reserved and not yet inserted, and of the footprints of the
\* Releases that have erased and not yet given back.
C34_ExactAccounting ==
  TrackingFromStart =>
    mem_tracker_.consumption = PendingFootprint + ReservedByAdds + HeldByReleases

\* An Add that has reserved and not inserted and a Release that has erased
\* and not given back are in progress at once, and nothing is pending: the
\* consumption is the sum of their two footprints.
C34_Witness ==
  /\ TrackingFromStart
  /\ pending_operations_ = <<>>
  /\ ReservedByAdds > 0
  /\ HeldByReleases > 0
  /\ mem_tracker_.consumption = ReservedByAdds + HeldByReleases

\* C35: whatever the interleaving of Adds and of other consumers of the
\* parent, the consumption of mem_tracker_ and that of its parent never exceed
\* their limits, so that of two Adds in progress at once that fit alone and
\* not together, at most one has passed TryConsume.
C35_NeverAboveLimit ==
  /\ mem_tracker_ # NULL => mem_tracker_.consumption <= mem_tracker_.limit
  /\ parent_mem_tracker.consumption <= parent_mem_tracker.limit
  /\ \A t, u \in Threads :
       (/\ t # u
        /\ mem_tracker_ # NULL
        /\ {pc[t], pc[u]} \subseteq {"add_increment", "add_increment_type", "add_insert"}
        /\ ~tracking_late)
         => driver_mem_footprint[t] + driver_mem_footprint[u] <= mem_tracker_.limit

\* Two Adds are in progress, each of a footprint the limit admits alone; one
\* has passed TryConsume and the other has been refused.
C35_Witness ==
  /\ TrackingFromStart
  /\ \E t, u \in Threads :
       /\ pc[t] \in {"add_increment", "add_increment_type", "add_insert"}
       /\ pc[u] = "add_rejected"
       /\ driver_mem_footprint[t] <= mem_tracker_.limit
       /\ driver_mem_footprint[u] <= mem_tracker_.limit
       /\ driver_mem_footprint[t] + driver_mem_footprint[u] > mem_tracker_.limit
       /\ other_consumption = 0

RECURSIVE SumGauges(_)
SumGauges(types) ==
  IF types = {} THEN 0
  ELSE LET ty == CHOOSE x \in types : TRUE
       IN operations_inflight[ty] + SumGauges(types \ {ty})

\* C36: whenever no Add or Release is in progress on a tracker whose metrics
\* were attached before the first Add, the aggregate gauge is the sum of the
\* gauges of the types and the number of pending operations, and the gauge of
\* each type is the number of pending operations of that type.
C36_GaugesAtRest ==
  (Quiescent /\ metrics_ /\ ~instrumented_late) =>
    /\ all_operations_inflight = SumGauges(OperationTypes)
    /\ all_operations_inflight = GetNumPendingForTests
    /\ \A ty \in OperationTypes : operations_inflight[ty] = Cardinality(PendingOfType(ty))

\* No call is in progress and operations of two types are pending, after a
\* Release and a rejected Add.
C36_Witness ==
  /\ Quiescent /\ metrics_ /\ ~instrumented_late
  /\ GetNumPendingForTests = 1
  /\ \E d \in Drivers : driver_state[d] = "released"
  /\ all_operations_inflight = 1

\* C37: whenever no call is in progress and pending_operations_ is empty, the
\* consumption of mem_tracker_ is zero.
C37_NoLeak ==
  (Quiescent /\ pending_operations_ = <<>> /\ mem_tracker_ # NULL) =>
    mem_tracker_.consumption = 0

\* C38: WaitForAllToFinish returns TimedOut only from a poll whose copy was
\* not empty and at which the time elapsed since the call began was strictly
\* more than the timeout; with a copy that is not empty and an elapsed time
\* that is at most the timeout it goes to sleep, and with an empty copy it
\* returns OK although the time is up.
C38_TimedOutOnlyPastDeadline ==
  [][\A w \in Drainers :
       /\ (Returns(w) /\ drain_status'[w].code = "TimedOut") =>
            /\ drain_pc[w] = "check"
            /\ operations[w] # {}
            /\ ~timeout[w].max
            /\ now - start_time[w] > timeout[w].us
       /\ (Decides(w) /\ operations[w] # {} /\ ~timeout[w].max
             /\ now - start_time[w] <= timeout[w].us) =>
            drain_pc'[w] = "sleep" /\ drain_status'[w] = NULL
       /\ (Decides(w) /\ operations[w] = {} /\ ~timeout[w].max
             /\ now - start_time[w] > timeout[w].us) =>
            drain_status'[w] = StatusOK]_vars

\* A call with a zero timeout found an operation pending at its first poll,
\* made when no time had elapsed, and has gone to sleep; the time came, and
\* the second poll has found it still pending: TimedOut is about to be returned.
C38_Witness ==
  \E w \in Drainers :
    /\ drain_pc[w] = "check"
    /\ timeout[w] = FromMicroseconds(0)
    /\ polls[w] = 2
    /\ sleeps[w] = 1
    /\ wake_time[w] - wait_time[w] = start_time[w]
    /\ operations[w] # {}
    /\ now - start_time[w] > 0

\* Lines 253-256: the listing of the pending operations ("Dumping currently
\* running operations" and one line for each) is logged by every iteration
\* that goes on to SleepFor, so caller w has logged it sleeps[w] times; the
\* warning of lines 246-249, which gives their number, has been logged
\* num_complaints[w] times.
Listings(w) == sleeps[w]
Warnings(w) == num_complaints[w]

\* Whole seconds elapsed since caller w's call began.
WholeSeconds(w) == (now - start_time[w]) \div 1000000

\* C31: while a call of WaitForAllToFinish waits, the diagnostic that lists
\* the pending operations is logged once for every whole second that has
\* elapsed since the call began and not once for every poll: after each poll
\* that goes on waiting, the diagnostics logged are as many as the whole
\* seconds elapsed at that poll, so that a poll at which no further second
\* has elapsed logs none.
C31_OneDiagnosticPerSecond ==
  [][\A w \in Drainers :
       (Decides(w) /\ drain_pc'[w] = "sleep") =>
         /\ Listings(w)' = WholeSeconds(w)
         /\ Warnings(w)' = WholeSeconds(w)]_vars

\* C40: when the operation stays pending, the polls take no time and the
\* sleeps last what they were asked for, WaitForAllToFinish returns TimedOut
\* at the first poll at which the elapsed time is more than the timeout: the
\* elapsed time it reports is more than the timeout by at most the SleepFor
\* that has just ended, and that is at most 1,000,000 microseconds.
C40_BoundedOverrun ==
  [][\A w \in Drainers :
       (Returns(w) /\ drain_status'[w].code = "TimedOut") =>
         LET overrun == (now - start_time[w]) - timeout[w].us
         IN /\ overrun > 0
            /\ sleeps[w] >= 1
            /\ overrun <= wait_time[w]
            /\ wait_time[w] <= 1000000
            /\ now = wake_time[w]]_vars

\* A call with a timeout of six seconds is about to return TimedOut from the
\* poll that followed a sleep of 1,000,000 microseconds, the longest there is.
C40_Witness ==
  \E w \in Drainers :
    /\ drain_pc[w] = "check"
    /\ timeout[w] = FromMicroseconds(6000000)
    /\ wait_time[w] = 1000000
    /\ now - start_time[w] > 6000000
    /\ operations[w] # {}

\* The locals and the result of caller w's call of WaitForAllToFinish.
Call(w) ==
  <<drain_pc[w], timeout[w], check_ok[w], start_time[w], operations[w], wait_time[w],
    num_complaints[w], wake_time[w], drain_status[w], polls[w], sleeps[w]>>

\* C33: a step of a call of WaitForAllToFinish changes neither the pending
\* operations, nor the consumption of the memory trackers, nor a gauge or the
\* rejection counter, and leaves the calls of the other threads as they were;
\* a caller that has its copy can always go on, whatever the others do; and a
\* call returns OK exactly from an empty copy of its own, TimedOut exactly from
\* a copy of its own that is not empty with more than its own timeout passed
\* since its own start.
C33_IndependentReadOnlyDrains ==
  /\ [](\A w \in ConcurrentDrainers : drain_pc[w] = "check" => ENABLED DrainCheck(w))
  /\ [][\A w \in ConcurrentDrainers :
          /\ Call(w)' # Call(w) =>
               /\ pending_operations_' = pending_operations_
               /\ memVars' = memVars
               /\ metricVars' = metricVars
               /\ \A v \in ConcurrentDrainers \ {w} : Call(v)' = Call(v)
          /\ Decides(w) =>
               /\ (Returns(w) /\ drain_status'[w] = StatusOK) <=> operations[w] = {}
               /\ (Returns(w) /\ drain_status'[w].code = "TimedOut") <=>
                    /\ operations[w] # {}
                    /\ ~timeout[w].max
                    /\ now - start_time[w] > timeout[w].us
          /\ polls'[w] = polls[w] + 1 => operations'[w] = DOMAIN pending_operations_]_vars

\* Two calls with the same timeout are in progress: caller 1 is about to
\* return TimedOut from its copy, while caller 2, whose call began later, is
\* asleep with none of its time used up.
C33_Witness ==
  /\ drain_pc[1] = "check"
  /\ drain_pc[2] = "sleep"
  /\ timeout[1] = FromMicroseconds(300)
  /\ timeout[2] = timeout[1]
  /\ operations[1] # {}
  /\ now - start_time[1] > 300
  /\ start_time[2] = now

\* C39: when no operation is admitted any more and the pending one is
\* released, every call of WaitForAllToFinish that was made has returned from
\* some moment on; a call without timeout returns OK, and a call with a
\* timeout returns TimedOut only when more than its timeout has passed at a
\* poll that found the operation pending, OK otherwise.
C39_DrainReturnsOnceReleased ==
  /\ <>[](\A w \in Drainers : ~Draining(w))
  /\ [][\A w \in Drainers :
          Returns(w) =>
            IF operations[w] # {} /\ ~timeout[w].max /\ now - start_time[w] > timeout[w].us
            THEN drain_status'[w].code = "TimedOut"
            ELSE drain_status'[w] = StatusOK /\ ~crashed']_vars

\* A call without timeout has found the operation pending at every iteration
\* that is followed while it is; the operation has been released since and
\* the next poll found nothing: the call is about to return OK.
C39_Witness ==
  \E w \in Drainers :
    /\ drain_pc[w] = "check"
    /\ timeout[w].max
    /\ operations[w] = {}
    /\ polls[w] = MaxPolls + 1
    /\ sleeps[w] = MaxPolls

\* C32: every Add that TryConsume refused returns ServiceUnavailable and, with
\* a metric entity, counts one rejection; its warning is logged only when none
\* was logged before or a second or more has passed since the last one, so
\* that two warnings are never less than a second apart, and nothing else
\* logs it.
C32_RejectionWarningThrottled ==
  [][/\ \A t \in Threads :
          (pc[t] = "add_rejected" /\ pc'[t] # "add_rejected") =>
            /\ pc'[t] = "idle"
            /\ driver_state'[driver[t]] = "rejected"
            /\ operation_memory_pressure_rejections' =
                 operation_memory_pressure_rejections + (IF metrics_ THEN 1 ELSE 0)
            /\ last_warning = NULL => last_warning' = [ts |-> now]
     /\ last_warning' # last_warning =>
          /\ \E t \in Threads : pc[t] = "add_rejected" /\ pc'[t] = "idle"
          /\ last_warning' = [ts |-> now]
          /\ last_warning # NULL => now - last_warning.ts >= 1000000]_vars

\* With a metric entity, one Add has been rejected and its warning logged;
\* half a second later TryConsume has refused another Add, which is about to
\* be rejected and counted without a warning.
C32_Witness ==
  \E t \in Threads :
    /\ pc[t] = "add_rejected"
    /\ metrics_
    /\ operation_memory_pressure_rejections = 1
    /\ last_warning # NULL
    /\ now - last_warning.ts = 500000
====
